---- MODULE Spec2Model ----
(***************************************************************************)
(* A model of pyheatintegration: the interval algebra, the Stream value    *)
(* object, the grand composite curve (heat cascade) and the validation     *)
(* done by PinchAnalyzer.                                                  *)
(*                                                                         *)
(* Python floats are modelled as exact rationals <<n, d>> in lowest terms  *)
(* with d > 0, so that a pro-rata duty such as 160 * 5 / 45 is a value of  *)
(* the model and equality of two numbers is equality of two tuples.        *)
(* An optional value (None or an object) is a sequence of length 0 or 1.   *)
(***************************************************************************)
EXTENDS Integers, Sequences, FiniteSets, TLC

VARIABLES
    stream,   \* the Stream object under test: <<>> or <<s>>
    streams,  \* the caller's list of streams
    gcc,      \* the GrandCompositeCurve built last: <<>> or <<g>>
    pa,       \* the PinchAnalyzer under construction
    msg,      \* the message PinchAnalyzer.validate_streams returned last
    err,      \* the exception the last call raised, "" when it returned
    call,     \* the last call and its arguments
    pre,      \* the object the last call was made on, as it was before the call
    ret,      \* the value the last call of a function returned
    heap      \* the objects of the program, by their identity

vars == <<stream, streams, gcc, pa, msg, err, call, pre, ret, heap>>

----------------------------------------------------------------------------
(* Bounds of the model. *)

MaxTemp == 2
MaxHeat == 2
MaxStreams == 2
MaxDeltaT == 2
MaxLen == 3

----------------------------------------------------------------------------
(* Numbers. *)

\* A value that is used more than once is bound as the element of a set of one
\* element, { e : x \in {v} }, so that it is computed once; Only takes the
\* element out.
Only(S) == CHOOSE x \in S : TRUE

Abs(x) == IF x < 0 THEN -x ELSE x

RECURSIVE Gcd(_, _)
Gcd(a, b) == IF b = 0 THEN a ELSE Only({Gcd(b, r) : r \in {a % b}})

\* the rational n / d in lowest terms, d /= 0
Rat(n, d) ==
    LET Lowest(p, q, g) == IF q < 0 THEN <<(-p) \div g, (-q) \div g>>
                           ELSE <<p \div g, q \div g>>
    IN  Only({Only({Lowest(p, q, g) : g \in {Gcd(Abs(p), Abs(q))}})
              : p \in {n}, q \in {d}})

R(n) == <<n, 1>>
Zero == R(0)

\* the greatest common divisor of the denominators of x and y (1 for two
\* infinite values)
CommonDivisor(x, y) == IF x[2] = 0 /\ y[2] = 0 THEN 1 ELSE Gcd(x[2], y[2])

\* x + y, x - y, x < y and x <= y: the two denominators are divided by their
\* greatest common divisor first, which keeps the products small
RAdd(x, y) ==
    Only({Rat(a[1] * (b[2] \div g) + b[1] * (a[2] \div g), (a[2] \div g) * b[2])
          : a \in {x}, b \in {y}, g \in {CommonDivisor(x, y)}})
RSub(x, y) ==
    Only({Rat(a[1] * (b[2] \div g) - b[1] * (a[2] \div g), (a[2] \div g) * b[2])
          : a \in {x}, b \in {y}, g \in {CommonDivisor(x, y)}})
RMul(x, y) == Only({Rat(a[1] * b[1], a[2] * b[2]) : a \in {x}, b \in {y}})
RDiv(x, y) == Only({Rat(a[1] * b[2], a[2] * b[1]) : a \in {x}, b \in {y}})
RLt(x, y) ==
    \E a \in {x}, b \in {y}, g \in {CommonDivisor(x, y)} :
        a[1] * (b[2] \div g) < b[1] * (a[2] \div g)
RLe(x, y) ==
    \E a \in {x}, b \in {y}, g \in {CommonDivisor(x, y)} :
        a[1] * (b[2] \div g) <= b[1] * (a[2] \div g)
RMinOf(x, y) == Only({IF RLt(b, a) THEN b ELSE a : a \in {x}, b \in {y}})
RMaxOf(x, y) == Only({IF RLt(a, b) THEN b ELSE a : a \in {x}, b \in {y}})

RECURSIVE RSum(_)
RSum(s) == Only({IF v = <<>> THEN Zero ELSE RAdd(v[1], RSum(Tail(v))) : v \in {s}})

\* min(list) and max(list) of a non-empty list
RECURSIVE RMin(_)
RMin(s) == Only({IF Len(v) = 1 THEN v[1] ELSE RMinOf(v[1], RMin(Tail(v))) : v \in {s}})

RECURSIVE RMax(_)
RMax(s) == Only({IF Len(v) = 1 THEN v[1] ELSE RMaxOf(v[1], RMax(Tail(v))) : v \in {s}})

None == <<>>
Some(x) == <<x>>

\* a set of numbers as the ascending list sorted() makes of it
RECURSIVE SortSet(_)
SortSet(S) ==
    Only({IF T = {} THEN <<>>
          ELSE Only({<<m>> \o SortSet(T \ {m})
                     : m \in {CHOOSE x \in T : \A y \in T : RLe(x, y)}})
          : T \in {S}})

\* sorted(list, key=...): the indices of keys in ascending key order, equal keys
\* in list order (Python's sort is stable)
RECURSIVE InsertIdx(_, _, _)
InsertIdx(i, idx, keys) ==
    IF idx = <<>> THEN <<i>>
    ELSE IF RLt(keys[i], keys[idx[1]]) THEN <<i>> \o idx
    ELSE <<idx[1]>> \o InsertIdx(i, Tail(idx), keys)

RECURSIVE SortIdx(_, _)
SortIdx(n, keys) ==
    IF n = 0 THEN <<>>
    ELSE Only({InsertIdx(n, idx, keys) : idx \in {SortIdx(n - 1, keys)}})

\* s sorted by keys, keys[i] being the key of s[i]
SortBy(s, keys) ==
    Only({Only({[j \in 1..Len(v) |-> v[idx[j]]] : idx \in {SortIdx(Len(v), k)}})
          : v \in {s}, k \in {keys}})

\* [x for x, k in zip(s, keep) if k]
RECURSIVE Filter(_, _)
Filter(s, keep) ==
    Only({ IF v = <<>> THEN <<>>
           ELSE (IF k[1] THEN <<v[1]>> ELSE <<>>) \o Filter(Tail(v), Tail(k))
           : v \in {s}, k \in {keep}})

----------------------------------------------------------------------------
(* base_range.py, temperature_range.py *)

minmax(a, b) == IF RLt(b, a) THEN <<b, a>> ELSE <<a, b>>

BaseRange(start, finish) ==
    LET mm == minmax(start, finish)
    IN  [start |-> mm[1], finish |-> mm[2], delta |-> RSub(mm[2], mm[1])]

TemperatureRange(start, finish) == BaseRange(start, finish)

\* value in range without its two ends, and value in range (closed interval)
ContainsOpen(r, v) == RLt(r.start, v) /\ RLt(v, r.finish)
Contains(r, v) == RLe(r.start, v) /\ RLe(v, r.finish)

\* range.shift(delta): delta, the width, is left as it was
Shift(r, d) == [r EXCEPT !.start = RAdd(@, d), !.finish = RAdd(@, d)]

----------------------------------------------------------------------------
(* enums.py *)

StreamType == {"COLD", "HOT", "EXTERNAL_COLD", "EXTERNAL_HOT", "AUTO"}
StreamState == {"LIQUID", "GAS", "LIQUID_EVAPORATION", "GAS_CONDENSATION", "UNKNOWN"}

----------------------------------------------------------------------------
(* stream.py: class Stream *)

is_external(s) == s.type_ \in {"EXTERNAL_HOT", "EXTERNAL_COLD"}
is_internal(s) == ~is_external(s)
is_hot(s) == s.type_ \in {"HOT", "EXTERNAL_HOT"}
is_cold(s) == ~is_hot(s)

\* math.isclose(delta, 0.0): with the default tolerances (rel_tol = 1e-09,
\* abs_tol = 0.0) a value is close to 0.0 only when it is 0.0
is_isothermal(s) == s.temperature_range.delta = Zero

input_temperature(s) ==
    IF is_hot(s) THEN s.temperature_range.finish ELSE s.temperature_range.start

output_temperature(s) ==
    IF is_hot(s) THEN s.temperature_range.start ELSE s.temperature_range.finish

heat(s) == s.heat_flow

contain_temperature(s, t) == Contains(s.temperature_range, t)

shift_temperature(s, d) ==
    [s EXCEPT !.temperature_range = Shift(@, d)]

\* The type a constructor call resolves to: <<>> when AUTO cannot be resolved.
ResolveType(input, output, type_) ==
    IF type_ = "AUTO"
    THEN IF RLt(input, output) THEN Some("COLD")
         ELSE IF RLt(output, input) THEN Some("HOT")
         ELSE None
    ELSE Some(type_)

\* the check of stream.py line 92, and the same check with the comparison
\* made non-strict
ColdOrderCheckNonStrict(self, input, output) == is_cold(self) /\ RLe(output, input)
ColdOrderCheck(self, input, output) == is_cold(self) /\ RLt(output, input)

\* Stream(input_temperature, output_temperature, heat_flow, type_, state, cost,
\* reboiler_or_reactor, id_); uuid is the identifier uuid4() would give.
\* The result is [err, check, stream]: check is the number of the check that
\* raised (0 when none did).
StreamInit(input, output, heat_flow, type_, state, cost, rr, id_, uuid) ==
    LET rt == ResolveType(input, output, type_)
        Raise(n) == [err |-> "InvalidStreamError", check |-> n, stream |-> None]
    IN  IF rt = None THEN Raise(1)
        ELSE
        LET self == [id_ |-> IF id_ # "" THEN id_ ELSE uuid,
                     type_ |-> rt[1],
                     state |-> state,
                     cost |-> cost,
                     temperature_range |-> TemperatureRange(input, output),
                     heat_flow |-> heat_flow,
                     reboiler_or_reactor |-> rr]
        IN  IF is_internal(self) /\ heat_flow = Zero THEN Raise(2)
            ELSE IF is_external(self) /\ heat_flow # Zero THEN Raise(3)
            ELSE IF ColdOrderCheck(self, input, output) THEN Raise(4)
            ELSE IF is_hot(self) /\ RLt(input, output) THEN Raise(5)
            ELSE IF is_internal(self) /\ cost # Zero THEN Raise(6)
            ELSE IF /\ state \in {"LIQUID_EVAPORATION", "GAS_CONDENSATION"}
                    /\ ~is_isothermal(self) THEN Raise(7)
            ELSE [err |-> "", check |-> 0, stream |-> Some(self)]

\* update_temperature without the rescaling of the duty
update_temperature_keeps_heat(s, input, output) ==
    IF is_isothermal(s)
    THEN [err |-> "ValueError", stream |-> s]
    ELSE [err |-> "",
          stream |-> [s EXCEPT !.temperature_range = TemperatureRange(input, output)]]

\* stream.update_temperature(input_temperature, output_temperature):
\* [err, stream], stream being the object after the call
update_temperature(s, input, output) ==
    IF is_isothermal(s)
    THEN [err |-> "ValueError", stream |-> s]
    ELSE LET old_temp_delta == s.temperature_range.delta
             new_range == TemperatureRange(input, output)
         IN  [err |-> "",
              stream |-> [s EXCEPT
                  !.temperature_range = new_range,
                  !.heat_flow = RDiv(RMul(heat(s), new_range.delta), old_temp_delta)]]

\* update_heat refusing every non-isothermal stream, external ones too
update_heat_any_role(s, heat_flow) ==
    IF ~is_isothermal(s)
    THEN [err |-> "ValueError", stream |-> s]
    ELSE [err |-> "", stream |-> [s EXCEPT !.heat_flow = heat_flow]]

\* stream.update_heat(heat_flow): [err, stream]
update_heat(s, heat_flow) ==
    IF is_internal(s) /\ ~is_isothermal(s)
    THEN [err |-> "ValueError", stream |-> s]
    ELSE [err |-> "", stream |-> [s EXCEPT !.heat_flow = heat_flow]]

----------------------------------------------------------------------------
(* temperature_range.py: functions on lists of temperature ranges *)

\* sorted(values)
SortNums(s) == SortBy(s, s)

\* list.count(value)
Count(s, v) == Cardinality({i \in 1..Len(s) : s[i] = v})

\* the second loop of get_temperature_transition: the isothermal ranges
RECURSIVE TransitionIsothermal(_, _)
TransitionIsothermal(ranges, temperatures) ==
    IF ranges = <<>> THEN [err |-> "", temperatures |-> temperatures]
    ELSE LET r == ranges[1]
             temp == r.start
             temp_count == Count(temperatures, temp)
         IN  IF r.delta # Zero THEN TransitionIsothermal(Tail(ranges), temperatures)
             ELSE IF temp_count = 0
             THEN TransitionIsothermal(Tail(ranges), temperatures \o <<temp, temp>>)
             ELSE IF temp_count = 1
             THEN TransitionIsothermal(Tail(ranges), temperatures \o <<temp>>)
             ELSE IF temp_count = 2
             THEN TransitionIsothermal(Tail(ranges), temperatures)
             ELSE [err |-> "ValueError", temperatures |-> <<>>]

\* get_temperature_transition(temperature_ranges): [err, temperatures]; the
\* order of list(set) is not specified, every caller sorts the result
get_temperature_transition(ranges) ==
    LET temperatures_set ==
            UNION {{ranges[i].start, ranges[i].finish} :
                   i \in {j \in 1..Len(ranges) : ranges[j].delta # Zero}}
    IN  TransitionIsothermal(ranges, SortSet(temperatures_set))

\* get_temperature_ranges(temperatures_)
get_temperature_ranges(temperatures_) ==
    LET temperatures == SortNums(temperatures_)
    IN  [i \in 1..(IF Len(temperatures) = 0 THEN 0 ELSE Len(temperatures) - 1) |->
            TemperatureRange(temperatures[i], temperatures[i + 1])]

\* sorted(ranges): ranges compare by start
SortRanges(ranges) == SortBy(ranges, [i \in 1..Len(ranges) |-> ranges[i].start])

\* is_continuous(ranges): <<>> when continuous, else <<finish, next start>> of
\* the first gap
is_continuous(ranges_) ==
    LET ranges == SortRanges(ranges_)
        gaps == {i \in 1..(Len(ranges) - 1) : ranges[i].finish # ranges[i + 1].start}
    IN  IF gaps = {} THEN None
        ELSE LET i == CHOOSE g \in gaps : \A h \in gaps : g <= h
             IN  Some(<<ranges[i].finish, ranges[i + 1].start>>)

\* get_temperatures(temp_ranges_): [err, temps]
get_temperatures(temp_ranges_) ==
    LET temp_ranges == SortRanges(temp_ranges_)
        n == Len(temp_ranges)
    IN  IF is_continuous(temp_ranges) # None
        THEN [err |-> "ValueError", temps |-> <<>>]
        ELSE [err |-> "",
              temps |-> [i \in 1..(IF n = 0 THEN 0 ELSE n + 1) |->
                            IF i <= n THEN temp_ranges[i].start
                            ELSE temp_ranges[n].finish]]

----------------------------------------------------------------------------
(* stream.py: get_temperature_range_streams *)

\* The copies of the streams that span temp_range, each cut to temp_range
\* (its duty pro rata) unless it is isothermal, in the order of streams.
RangeStreams(streams_, temp_range) ==
    LET target == Filter(streams_, [i \in 1..Len(streams_) |->
                      /\ contain_temperature(streams_[i], temp_range.start)
                      /\ contain_temperature(streams_[i], temp_range.finish)
                      /\ temp_range.delta = Zero => is_isothermal(streams_[i])])
    IN  [k \in 1..Len(target) |->
            IF ~is_isothermal(target[k])
            THEN update_temperature(target[k], temp_range.start, temp_range.finish).stream
            ELSE target[k]]

\* get_temperature_range_streams(streams): [err, temp_ranges, temp_range_streams],
\* temp_range_streams being the dictionary from each range to its streams
get_temperature_range_streams(streams_) ==
    LET tr == get_temperature_transition(
                  [i \in 1..Len(streams_) |-> streams_[i].temperature_range])
        temp_ranges == SortRanges(get_temperature_ranges(SortNums(tr.temperatures)))
        keys == {temp_ranges[i] : i \in 1..Len(temp_ranges)}
    IN  [err |-> tr.err,
         temp_ranges |-> temp_ranges,
         temp_range_streams |-> [r \in keys |-> RangeStreams(streams_, r)]]

----------------------------------------------------------------------------
(* grand_composite_curve.py: class GrandCompositeCurve *)

\* sum([s.heat() for s in streams if s.is_hot()]), and the same for is_cold
HotHeats(ss) == RSum([i \in 1..Len(ss) |-> IF is_hot(ss[i]) THEN heat(ss[i]) ELSE Zero])
ColdHeats(ss) == RSum([i \in 1..Len(ss) |-> IF is_cold(ss[i]) THEN heat(ss[i]) ELSE Zero])

\* the value of one range with the two sums exchanged
LackingHeatColdMinusHot(ss) == RSub(ColdHeats(ss), HotHeats(ss))

\* the value _lacking_heats gives one range: hot duties minus cold duties
LackingHeat(ss) == RSub(HotHeats(ss), ColdHeats(ss))

\* _lacking_heats(temp_range_streams)
_lacking_heats(temp_range_streams) ==
    [r \in DOMAIN temp_range_streams |-> LackingHeat(temp_range_streams[r])]

\* the cascade of _get_heats before it is normalised: heats[0] = 0.0,
\* heats[i + 1] = heats[i] - lacking heat of range i
RECURSIVE Cascade(_, _, _)
Cascade(temp_ranges, lacking, n) ==
    IF n = 0 THEN <<Zero>>
    ELSE LET before == Cascade(temp_ranges, lacking, n - 1)
             r == temp_ranges[n]
             l == IF r \in DOMAIN lacking THEN lacking[r] ELSE Zero
         IN  Append(before, RSub(before[n], l))

\* the normalisation of _get_heats left out
NormaliseNot(heats) == heats

\* the last two lines of _get_heats: every heat minus the minimum
Normalise(heats) ==
    LET min_heat == RMin(heats)
    IN  [i \in 1..Len(heats) |-> RSub(heats[i], min_heat)]

\* cls._get_heats(temp_ranges, temp_range_lacking_heat)
_get_heats(temp_ranges_, lacking) ==
    LET temp_ranges == SortRanges(temp_ranges_)
    IN  Normalise(Cascade(temp_ranges, lacking, Len(temp_ranges)))

\* the pinch indexes taken the other way round
PinchIndexesSwapped(heats) ==
    LET idx == {i \in 0..(Len(heats) - 1) : heats[i + 1] = Zero}
    IN  [max |-> CHOOSE i \in idx : \A j \in idx : i <= j,
         min |-> CHOOSE i \in idx : \A j \in idx : j <= i]

\* pinch_point_indexes[-1] and pinch_point_indexes[0] of _set_pinch_point
\* (indexes count from 0, as in the program)
PinchIndexes(heats) ==
    LET idx == {i \in 0..(Len(heats) - 1) : heats[i + 1] = Zero}
    IN  [max |-> CHOOSE i \in idx : \A j \in idx : j <= i,
         min |-> CHOOSE i \in idx : \A j \in idx : i <= j]

\* self._set_pinch_point(): [err, max_temp, max_index, min_temp, min_index]
_set_pinch_point(temps, heats) ==
    LET none == [max_temp |-> Zero, max_index |-> 0, min_temp |-> Zero, min_index |-> 0]
    IN  IF \A i \in 1..Len(heats) : heats[i] # Zero
        THEN [err |-> "ValueError"] @@ none
        ELSE LET p == PinchIndexes(heats)
             IN  IF p.max + 1 > Len(temps)
                 THEN [err |-> "IndexError"] @@ none
                 ELSE [err |-> "",
                       max_temp |-> temps[p.max + 1], max_index |-> p.max,
                       min_temp |-> temps[p.min + 1], min_index |-> p.min]

\* the streams sorted by inlet temperature with the shift of the cold ones
\* left out
ShiftedSortedNoShift(streams_, minimum_approach_temp_diff) ==
    SortBy(streams_, [i \in 1..Len(streams_) |-> input_temperature(streams_[i])])

\* the streams of GrandCompositeCurve.__init__ after lines 33-41: copied, the
\* cold ones shifted, sorted by inlet temperature
ShiftedSorted(streams_, minimum_approach_temp_diff) ==
    LET shifted == [i \in 1..Len(streams_) |->
                       IF is_cold(streams_[i])
                       THEN shift_temperature(streams_[i], minimum_approach_temp_diff)
                       ELSE streams_[i]]
    IN  SortBy(shifted, [i \in 1..Len(shifted) |-> input_temperature(shifted[i])])

\* lines 50-63 of GrandCompositeCurve.__init__: temps, heats, the pinch points
\* and the targets
CurveOfRanges(minimum_approach_temp_diff, external_streams, trs) ==
    Only({IF gt.err # "" THEN [err |-> gt.err, gcc |-> None]
          ELSE Only({IF pp.err # "" THEN [err |-> pp.err, gcc |-> None]
                     ELSE [err |-> "",
                           gcc |-> Some([minimum_approach_temp_diff |->
                                             minimum_approach_temp_diff,
                                         external_streams |-> external_streams,
                                         temps |-> gt.temps,
                                         heats |-> heats,
                                         maximum_pinch_point_temp |-> pp.max_temp,
                                         maximum_pinch_point_index |-> pp.max_index,
                                         minimum_pinch_point_temp |-> pp.min_temp,
                                         minimum_pinch_point_index |-> pp.min_index,
                                         hot_utility_target |-> heats[Len(heats)],
                                         cold_utility_target |-> heats[1]])]
                     : pp \in {_set_pinch_point(gt.temps, heats)}})
          : gt \in {get_temperatures(trs.temp_ranges)},
            heats \in {_get_heats(trs.temp_ranges, _lacking_heats(trs.temp_range_streams))}})

\* GrandCompositeCurve(streams_, minimum_approach_temp_diff): [err, gcc]
GrandCompositeCurveInit(streams_, minimum_approach_temp_diff) ==
    Only({Only({IF trs.err # "" THEN [err |-> trs.err, gcc |-> None]
                ELSE CurveOfRanges(minimum_approach_temp_diff, external_streams, trs)
                : external_streams \in
                      {Filter(sorted, [i \in 1..Len(sorted) |-> is_external(sorted[i])])},
                  trs \in {get_temperature_range_streams(
                               Filter(sorted,
                                      [i \in 1..Len(sorted) |-> is_internal(sorted[i])]))}})
          : sorted \in {ShiftedSorted(streams_, minimum_approach_temp_diff)}})

----------------------------------------------------------------------------
(* base_range.py: mergeable, merge, flatten, get_ranges *)

\* BaseRange.mergeable(self, other)
mergeable(self, other) == self.start = other.finish \/ self.finish = other.start

\* the range of merge without the choice of the side
MergedRangeOneSide(range_, other) == BaseRange(range_.start, other.finish)

\* the range merge returns for two mergeable ranges
MergedRange(range_, other) ==
    IF range_.start = other.finish
    THEN BaseRange(other.start, range_.finish)
    ELSE BaseRange(range_.start, other.finish)

\* merge(range_, other) for two ranges of one class: [err, range]
merge(range_, other) ==
    IF ~mergeable(range_, other)
    THEN [err |-> "ValueError", range |-> None]
    ELSE [err |-> "", range |-> Some(MergedRange(range_, other))]

\* the starts alone
FlattenedStarts(ranges) == [i \in 1..Len(ranges) |-> ranges[i].start]

\* the values flatten returns for a sorted continuous list of ranges
FlattenedValues(ranges) ==
    [i \in 1..(IF Len(ranges) = 0 THEN 0 ELSE Len(ranges) + 1) |->
        IF i <= Len(ranges) THEN ranges[i].start ELSE ranges[Len(ranges)].finish]

\* flatten(ranges_): [err, values]
flatten(ranges_) ==
    Only({ IF is_continuous(ranges) # None
           THEN [err |-> "ValueError", values |-> <<>>]
           ELSE [err |-> "", values |-> FlattenedValues(ranges)]
           : ranges \in {SortRanges(ranges_)} })

\* get_ranges(values, cls); cls is the class of the ranges made
get_ranges(values_) ==
    Only({ [i \in 1..(IF Len(values) = 0 THEN 0 ELSE Len(values) - 1) |->
               BaseRange(values[i], values[i + 1])]
           : values \in {SortNums(values_)} })

----------------------------------------------------------------------------
(* heat_range.py, plot_segment.py *)

\* float('inf'): larger than every number
Inf == <<1, 0>>

\* the eps of HeatRange.__contains__ is 1 / EpsInverse
EpsInverse == 1000000

HeatRange(start, finish) == BaseRange(start, finish)

\* x - eps <= y, computed on the difference x - y = n/d: n/d <= 1/EpsInverse
\* is n <= d / EpsInverse in whole numbers
LeWithEps(x, y) ==
    LET d == RSub(x, y)
    IN  d[1] <= d[2] \div EpsInverse

\* HeatRange.__contains__(temp, eps): start - eps <= temp <= finish + eps
HeatRangeContains(r, v) == LeWithEps(r.start, v) /\ LeWithEps(v, r.finish)

\* HeatRange.merge(self, other): [err, range]
HeatRange_merge(self, other) ==
    IF ~mergeable(self, other)
    THEN [err |-> "ValueError", range |-> None]
    ELSE [err |-> "",
          range |-> Some(IF self.start = other.finish
                         THEN HeatRange(other.start, self.finish)
                         ELSE HeatRange(self.start, other.finish))]

\* get_heat_ranges(heats_)
get_heat_ranges(heats_) ==
    LET heats == SortNums(heats_)
    IN  [i \in 1..(IF Len(heats) = 0 THEN 0 ELSE Len(heats) - 1) |->
            HeatRange(heats[i], heats[i + 1])]

\* get_heats(heat_ranges_): [err, heats]
get_heats(heat_ranges_) ==
    LET heat_ranges == SortRanges(heat_ranges_)
        n == Len(heat_ranges)
    IN  IF is_continuous(heat_ranges) # None
        THEN [err |-> "ValueError", heats |-> <<>>]
        ELSE [err |-> "",
              heats |-> [i \in 1..(IF n = 0 THEN 0 ELSE n + 1) |->
                            IF i <= n THEN heat_ranges[i].start
                            ELSE heat_ranges[n].finish]]

\* get_merged_heat_ranges with the heats of the first list alone
get_merged_heat_ranges_of_first(heat_ranges_list) ==
    Only({ IF \E k \in 1..Len(each) : each[k].err # ""
           THEN [err |-> "ValueError", heat_ranges |-> <<>>]
           ELSE [err |-> "",
                 heat_ranges |-> IF each = <<>> THEN <<>>
                                 ELSE get_heat_ranges(each[1].heats)]
           : each \in {[k \in 1..Len(heat_ranges_list) |->
                            get_heats(heat_ranges_list[k])]} })

\* get_merged_heat_ranges(heat_ranges_list): [err, heat_ranges]
get_merged_heat_ranges(heat_ranges_list) ==
    LET each == [k \in 1..Len(heat_ranges_list) |-> get_heats(heat_ranges_list[k])]
        heats == UNION {{each[k].heats[i] : i \in 1..Len(each[k].heats)} :
                        k \in 1..Len(each)}
    IN  IF \E k \in 1..Len(each) : each[k].err # ""
        THEN [err |-> "ValueError", heat_ranges |-> <<>>]
        ELSE [err |-> "", heat_ranges |-> get_heat_ranges(SortSet(heats))]

\* get_detailed_heat_ranges(heat_ranges_list), which tq_diagram.py imports from
\* heat_range.py: the ranges between all the heats of the lists
get_detailed_heat_ranges(heat_ranges_list) == get_merged_heat_ranges(heat_ranges_list)

\* PlotSegment(start_heat, finish_heat, start_temperature, finish_temperature,
\* uuid_, state, reboiler_or_reactor)
PlotSegment(start_heat, finish_heat, start_temperature, finish_temperature, uuid_, state, rr) ==
    [heat_range |-> HeatRange(start_heat, finish_heat),
     temperature_range |-> TemperatureRange(start_temperature, finish_temperature),
     uuid |-> uuid_, state |-> state, reboiler_or_reactor |-> rr]

\* PlotSegment.contain_heats(heats)
contain_heats(ps, heats) ==
    \A i \in 1..Len(heats) : HeatRangeContains(ps.heat_range, heats[i])

\* PlotSegment.temperature_at_heat(heat), on a segment that contains heat
temperature_at_heat(ps, heat_) ==
    LET heat_left == ps.heat_range.start
        heat_right == ps.heat_range.finish
        temp_left == ps.temperature_range.start
        temp_right == ps.temperature_range.finish
        slope == RDiv(RSub(temp_right, temp_left), RSub(heat_right, heat_left))
    IN  RAdd(RMul(slope, RSub(heat_, heat_left)), temp_left)

\* PlotSegment.shift_heat(delta)
shift_heat(ps, delta) == [ps EXCEPT !.heat_range = Shift(@, delta)]

\* the segments get_plot_segments appends for one heat range, in the order of
\* plot_segments
PlotSegmentsOfRange(heat_range, plot_segments) ==
    LET hs == <<heat_range.start, heat_range.finish>>
        found == Filter(plot_segments,
                        [i \in 1..Len(plot_segments) |-> contain_heats(plot_segments[i], hs)])
    IN  [k \in 1..Len(found) |->
            PlotSegment(heat_range.start, heat_range.finish,
                        temperature_at_heat(found[k], heat_range.start),
                        temperature_at_heat(found[k], heat_range.finish),
                        found[k].uuid, found[k].state, found[k].reboiler_or_reactor)]

\* get_plot_segments(heat_ranges, plot_segments)
RECURSIVE get_plot_segments(_, _)
get_plot_segments(heat_ranges, plot_segments) ==
    IF heat_ranges = <<>> THEN <<>>
    ELSE PlotSegmentsOfRange(heat_ranges[1], plot_segments)
             \o get_plot_segments(Tail(heat_ranges), plot_segments)

----------------------------------------------------------------------------
(* The composite curves and the largest minimum approach temperature
   (stream.py, temperature_range.py, tq_diagram.py). *)

\* get_temperature_range_heats(streams): [err, temp_ranges, temp_range_heats]
get_temperature_range_heats(streams_) ==
    Only({[err |-> trs.err,
           temp_ranges |-> trs.temp_ranges,
           temp_range_heats |->
               [r \in DOMAIN trs.temp_range_streams |->
                   RSum([k \in 1..Len(trs.temp_range_streams[r]) |->
                            heat(trs.temp_range_streams[r][k])])]]
          : trs \in {get_temperature_range_streams(streams_)}})

\* the running sums of accumulate_heats: heats[0] = 0.0,
\* heats[i + 1] = heats[i] + heat of range i
RECURSIVE RunningSum(_, _, _)
RunningSum(temperature_ranges, temperature_range_heats, n) ==
    IF n = 0 THEN <<Zero>>
    ELSE Only({Append(before,
                      RAdd(before[n], temperature_range_heats[temperature_ranges[n]]))
               : before \in {RunningSum(temperature_ranges, temperature_range_heats,
                                        n - 1)}})

\* accumulate_heats(temperature_ranges_, temperature_range_heats): [err, heats]
accumulate_heats(temperature_ranges_, temperature_range_heats) ==
    Only({IF \/ {temperature_ranges[i] : i \in 1..Len(temperature_ranges)}
                    # DOMAIN temperature_range_heats
             \/ Len(temperature_ranges) # Cardinality(DOMAIN temperature_range_heats)
          THEN [err |-> "ValueError", heats |-> <<>>]
          ELSE [err |-> "",
                heats |-> RunningSum(temperature_ranges, temperature_range_heats,
                                     Len(temperature_ranges))]
          : temperature_ranges \in {SortRanges(temperature_ranges_)}})

\* _create_composite_curve(streams): [err, curve]; each segment has an
\* identifier of its own (uuid4)
_create_composite_curve(streams_) ==
    LET Curve(temps, heats) ==
            [i \in 1..(Len(heats) - 1) |->
                PlotSegment(heats[i], heats[i + 1], temps[i], temps[i + 1],
                            "segment-" \o ToString(i), "UNKNOWN", FALSE)]
        Segments(trh) ==
            Only({IF t.err # "" THEN [err |-> t.err, curve |-> <<>>]
                  ELSE IF h.err # "" THEN [err |-> h.err, curve |-> <<>>]
                  ELSE [err |-> "", curve |-> Curve(t.temps, h.heats)]
                  : t \in {get_temperatures(trh.temp_ranges)},
                    h \in {accumulate_heats(trh.temp_ranges, trh.temp_range_heats)}})
    IN  Only({IF trh.err # "" THEN [err |-> trh.err, curve |-> <<>>] ELSE Segments(trh)
              : trh \in {get_temperature_range_heats(streams_)}})

\* the heat ranges of a list of plot segments
HeatRangesOf(plot_segments) ==
    [i \in 1..Len(plot_segments) |-> plot_segments[i].heat_range]

\* {plot_segment.heat_range: plot_segment for plot_segment in plot_segments}:
\* a later segment of the same heat range replaces an earlier one
ByHeatRange(plot_segments) ==
    Only({[r \in {ps[i].heat_range : i \in 1..Len(ps)} |->
              ps[CHOOSE i \in 1..Len(ps) :
                     /\ ps[i].heat_range = r
                     /\ \A j \in 1..Len(ps) : ps[j].heat_range = r => j <= i]]
          : ps \in {plot_segments}})

\* the loop of get_possible_minimum_temp_diff over heat_ranges: the least of
\* inf and the temperature differences at the two ends of every heat range
\* that both curves have
RECURSIVE MinTempDiff(_, _, _)
MinTempDiff(heat_ranges, hot, cold) ==
    IF heat_ranges = <<>> THEN Inf
    ELSE LET r == heat_ranges[Len(heat_ranges)]
             before == MinTempDiff(SubSeq(heat_ranges, 1, Len(heat_ranges) - 1), hot, cold)
         IN  IF r \notin DOMAIN hot \/ r \notin DOMAIN cold THEN before
             ELSE RMin(<<before,
                         RSub(hot[r].temperature_range.start,
                              cold[r].temperature_range.start),
                         RSub(hot[r].temperature_range.finish,
                              cold[r].temperature_range.finish)>>)

\* lines 336-369 of get_possible_minimum_temp_diff: the two curves cut at all
\* their heats, and the least temperature difference
MinTempDiffOfCurves(hcc, ccc) ==
    Only({IF heat_ranges.err # "" THEN [err |-> heat_ranges.err, value |-> Zero]
          ELSE Only({[err |-> "",
                      value |-> MinTempDiff(heat_ranges.heat_ranges,
                                            hot_heat_range_plot_segment,
                                            cold_heat_range_plot_segment)]
                     : hot_heat_range_plot_segment \in
                           {ByHeatRange(get_plot_segments(heat_ranges.heat_ranges, hcc))},
                       cold_heat_range_plot_segment \in
                           {ByHeatRange(get_plot_segments(heat_ranges.heat_ranges, ccc))}})
          : heat_ranges \in
                {get_detailed_heat_ranges(<<HeatRangesOf(hcc), HeatRangesOf(ccc)>>)}})

\* lines 324-334: the cold curve moved to end at the heat where the hot curve
\* ends, when the hot curve ends at the larger heat or at the same
ShiftToMaximumHeat(hcc, ccc) ==
    Only({IF RLe(cold_maximum_heat, hot_maximum_heat)
          THEN [i \in 1..Len(ccc) |->
                   shift_heat(ccc[i], RSub(hot_maximum_heat, cold_maximum_heat))]
          ELSE ccc
          : hot_maximum_heat \in {RMax([i \in 1..Len(hcc) |-> hcc[i].heat_range.finish])},
            cold_maximum_heat \in {RMax([i \in 1..Len(ccc) |-> ccc[i].heat_range.finish])}})

\* lines 312-369: from the composite curves of the hot and of the cold streams
MinTempDiffOfInitialCurves(initial_hcc, initial_ccc) ==
    Only({IF initial_heat_ranges.err # ""
          THEN [err |-> initial_heat_ranges.err, value |-> Zero]
          ELSE Only({IF hcc = <<>> \/ ccc_ = <<>>
                     THEN [err |-> "ValueError", value |-> Zero]
                     ELSE Only({MinTempDiffOfCurves(hcc, ccc)
                                : ccc \in {ShiftToMaximumHeat(hcc, ccc_)}})
                     : hcc \in {get_plot_segments(initial_heat_ranges.heat_ranges,
                                                  initial_hcc)},
                       ccc_ \in {get_plot_segments(initial_heat_ranges.heat_ranges,
                                                   initial_ccc)}})
          : initial_heat_ranges \in
                {get_detailed_heat_ranges(<<HeatRangesOf(initial_hcc),
                                            HeatRangesOf(initial_ccc)>>)}})

\* get_possible_minimum_temp_diff(streams): [err, value]
get_possible_minimum_temp_diff(streams_) ==
    Only({IF hot_streams = <<>> \/ cold_streams = <<>>
          THEN [err |-> "RuntimeError", value |-> Zero]
          ELSE Only({IF initial_hcc.err # "" THEN [err |-> initial_hcc.err, value |-> Zero]
                     ELSE IF initial_ccc.err # ""
                     THEN [err |-> initial_ccc.err, value |-> Zero]
                     ELSE MinTempDiffOfInitialCurves(initial_hcc.curve, initial_ccc.curve)
                     : initial_hcc \in {_create_composite_curve(hot_streams)},
                       initial_ccc \in {_create_composite_curve(cold_streams)}})
          : hot_streams \in
                {Only({SortBy(ss, [i \in 1..Len(ss) |-> output_temperature(ss[i])])
                       : ss \in {Filter(streams_,
                                        [i \in 1..Len(streams_) |->
                                            is_internal(streams_[i]) /\ is_hot(streams_[i])])}})},
            cold_streams \in
                {Only({SortBy(ss, [i \in 1..Len(ss) |-> input_temperature(ss[i])])
                       : ss \in {Filter(streams_,
                                        [i \in 1..Len(streams_) |->
                                            is_internal(streams_[i]) /\ is_cold(streams_[i])])}})}})

----------------------------------------------------------------------------
(* pinch_analyzer.py: class PinchAnalyzer *)

\* get_possible_minimum_temp_diff_range(streams, ignore_validation), which
\* pinch_analyzer.py imports from tq_diagram.py: the range from 0 to the
\* largest minimum approach temperature of the streams: [err, range]
get_possible_minimum_temp_diff_range(streams_, ignore_validation) ==
    Only({[err |-> upper.err, range |-> TemperatureRange(Zero, upper.value)]
          : upper \in {get_possible_minimum_temp_diff(streams_)}})

\* the first identifier the loop of validate_streams finds a second time:
\* <<>> when the identifiers are distinct
DuplicatedId(streams_) ==
    LET again == {j \in 1..Len(streams_) :
                     \E i \in 1..(j - 1) : streams_[i].id_ = streams_[j].id_}
    IN  IF again = {} THEN None
        ELSE Some(streams_[CHOOSE j \in again : \A k \in again : j <= k].id_)

\* the two checks of validate_streams that ignore_validation switches off,
\* made whatever ignore_validation is
OptionalChecksAlways(ignore_validation, hot_minimum_temp, cold_minimum_temp, hot_maximum_temp, cold_maximum_temp) ==
    IF RLt(RSub(hot_minimum_temp, cold_minimum_temp), Zero)
    THEN [message |-> "hot minimum temperature below cold minimum temperature",
          args |-> <<hot_minimum_temp, cold_minimum_temp>>]
    ELSE IF RLt(RSub(hot_maximum_temp, cold_maximum_temp), Zero)
    THEN [message |-> "hot maximum temperature below cold maximum temperature",
          args |-> <<hot_maximum_temp, cold_maximum_temp>>]
    ELSE [message |-> "", args |-> <<>>]

\* lines 165-180 of validate_streams
OptionalChecks(ignore_validation, hot_minimum_temp, cold_minimum_temp, hot_maximum_temp, cold_maximum_temp) ==
    IF ~ignore_validation /\ RLt(RSub(hot_minimum_temp, cold_minimum_temp), Zero)
    THEN [message |-> "hot minimum temperature below cold minimum temperature",
          args |-> <<hot_minimum_temp, cold_minimum_temp>>]
    ELSE IF ~ignore_validation /\ RLt(RSub(hot_maximum_temp, cold_maximum_temp), Zero)
    THEN [message |-> "hot maximum temperature below cold maximum temperature",
          args |-> <<hot_maximum_temp, cold_maximum_temp>>]
    ELSE [message |-> "", args |-> <<>>]

\* PinchAnalyzer.validate_streams(streams, ignore_validation): the message, as
\* its fixed text (in English) and the values formatted into it
validate_streams(streams_, ignore_validation) ==
    LET dup == DuplicatedId(streams_)
        hot_streams == Filter(streams_, [i \in 1..Len(streams_) |-> is_hot(streams_[i])])
        cold_streams == Filter(streams_, [i \in 1..Len(streams_) |-> is_cold(streams_[i])])
        hot_maximum_temp ==
            RMax([i \in 1..Len(hot_streams) |-> input_temperature(hot_streams[i])])
        hot_minimum_temp ==
            RMin([i \in 1..Len(hot_streams) |-> output_temperature(hot_streams[i])])
        cold_maximum_temp ==
            RMax([i \in 1..Len(cold_streams) |-> output_temperature(cold_streams[i])])
        cold_minimum_temp ==
            RMin([i \in 1..Len(cold_streams) |-> input_temperature(cold_streams[i])])
    IN  IF dup # None
        THEN [message |-> "stream ids must be unique", args |-> dup]
        ELSE IF hot_streams = <<>> \/ cold_streams = <<>>
        THEN [message |-> "at least one hot and one cold stream are needed", args |-> <<>>]
        ELSE IF RLe(hot_maximum_temp, cold_minimum_temp)
        THEN [message |-> "hot maximum temperature below cold minimum temperature",
              args |-> <<>>]
        ELSE OptionalChecks(ignore_validation, hot_minimum_temp, cold_minimum_temp,
                            hot_maximum_temp, cold_maximum_temp)

\* ignore_validation taken from the presence of an external stream, not from
\* its absence
IgnoreValidationIfExternal(streams_, force_validation) ==
    /\ \E i \in 1..Len(streams_) : is_external(streams_[i])
    /\ ~force_validation

\* ignore_validation as lines 69-72 of PinchAnalyzer.__init__ set it
IgnoreValidation(streams_, force_validation) ==
    /\ ~ \E i \in 1..Len(streams_) : is_external(streams_[i])
    /\ ~force_validation

\* the test of line 81 with the two ends of the range left out of it
NotInRangeOrAtEnd(minimum_approach_temp_diff, range) ==
    ~ContainsOpen(range, minimum_approach_temp_diff)

\* minimum_approach_temp_diff not in self.minimum_approach_temp_diff_range
NotInRange(minimum_approach_temp_diff, range) ==
    ~Contains(range, minimum_approach_temp_diff)

\* self before line 77: no attribute is assigned
NoAttributes ==
    [minimum_approach_temp_diff_range |-> None,
     gcc |-> None,
     external_heating_demand |-> None,
     external_cooling_demand |-> None]

\* lines 77-91 of PinchAnalyzer.__init__: the range, its check, the curve and
\* the demands
RangeAndCurve(streams_, minimum_approach_temp_diff, ignore_validation) ==
    Only({IF range.err # ""
          THEN [err |-> range.err, message |-> "", self |-> NoAttributes]
          ELSE IF NotInRange(minimum_approach_temp_diff, range.range)
          THEN [err |-> "PyHeatIntegrationError",
                message |-> "minimum approach temperature difference is invalid",
                self |-> [NoAttributes EXCEPT
                             !.minimum_approach_temp_diff_range = Some(range.range)]]
          ELSE Only({IF g.err # ""
                     THEN [err |-> g.err, message |-> "",
                           self |-> [NoAttributes EXCEPT
                                        !.minimum_approach_temp_diff_range =
                                            Some(range.range)]]
                     ELSE [err |-> "", message |-> "",
                           self |-> [minimum_approach_temp_diff_range |-> Some(range.range),
                                     gcc |-> g.gcc,
                                     external_heating_demand |->
                                         Some(g.gcc[1].heats[Len(g.gcc[1].heats)]),
                                     external_cooling_demand |-> Some(g.gcc[1].heats[1])]]
                     : g \in {GrandCompositeCurveInit(streams_, minimum_approach_temp_diff)}})
          : range \in {get_possible_minimum_temp_diff_range(streams_, ignore_validation)}})

\* PinchAnalyzer(streams_, minimum_approach_temp_diff, force_validation), lines
\* 61-91: [err, message, self], self holding the attributes assigned when the
\* constructor returned or raised (<<>> for one not assigned).  The attributes
\* of lines 93-130 (streams, pinch_point_temp, tq, heat_exchangers) are
\* assigned after these.
PinchAnalyzerInit(streams_, minimum_approach_temp_diff, force_validation) ==
    Only({Only({IF v.message # ""
                THEN [err |-> "PyHeatIntegrationError", message |-> v.message,
                      self |-> NoAttributes]
                ELSE RangeAndCurve(streams_, minimum_approach_temp_diff, ignore_validation)
                : v \in {validate_streams(streams_, ignore_validation)}})
          : ignore_validation \in {IgnoreValidation(streams_, force_validation)}})

----------------------------------------------------------------------------
(* Objects and references.  The heap is the sequence of the objects made so
   far and a reference is the index of an object.  A Stream object holds the
   reference of its temperature range, a list object the references of its
   items; deepcopy makes new objects, copy a new Stream object with the range
   object of the old one, and the in-place operations change the object they
   are called on. *)

\* the Stream at reference r with its temperature range read through
Deref(h, r) == [h[r] EXCEPT !.temperature_range = h[h[r].temperature_range]]

DerefList(h, refs) == [i \in 1..Len(refs) |-> Deref(h, refs[i])]

\* Stream.__init__ on the heap: the TemperatureRange object, then the Stream
\* object, which is the last object
Allocate(h, s) ==
    Append(Append(h, s.temperature_range),
           [s EXCEPT !.temperature_range = Len(h) + 1])

\* deepcopy of the items refs[k], refs[k + 1], ... of a list of streams
RECURSIVE DeepcopyItems(_, _, _)
DeepcopyItems(h, refs, k) ==
    IF k > Len(refs) THEN h
    ELSE DeepcopyItems(Allocate(h, Deref(h, refs[k])), refs, k + 1)

\* a new list of the same Stream objects
ListCopy(h, lref) == Append(h, h[lref])

\* deepcopy(streams_) of a list of distinct streams: the heap with the copies,
\* the new list being the last object
deepcopy(h, lref) ==
    Append(DeepcopyItems(h, h[lref].items, 1),
           [items |-> [i \in 1..Len(h[lref].items) |-> Len(h) + 2 * i]])

\* lines 37-39 of GrandCompositeCurve.__init__: stream.shift_temperature(
\* minimum_approach_temp_diff) on the cold streams, from item k
RECURSIVE ShiftCold(_, _, _, _)
ShiftCold(h, refs, k, delta) ==
    IF k > Len(refs) THEN h
    ELSE IF is_cold(h[refs[k]])
    THEN ShiftCold([h EXCEPT ![h[refs[k]].temperature_range] = Shift(@, delta)],
                   refs, k + 1, delta)
    ELSE ShiftCold(h, refs, k + 1, delta)

\* line 41: streams.sort(key=lambda stream: stream.input_temperature())
SortStreams(h, lref) ==
    [h EXCEPT ![lref].items =
        SortBy(h[lref].items,
               [i \in 1..Len(h[lref].items) |->
                   input_temperature(Deref(h, h[lref].items[i]))])]

\* lines 33-41 with the list not copied
SharedShiftedSorted(h, lref, minimum_approach_temp_diff) ==
    Only({ SortStreams(ShiftCold(c, c[Len(c)].items, 1, minimum_approach_temp_diff),
                       Len(c))
           : c \in {ListCopy(h, lref)} })

\* lines 33-41: the list copied, the cold copies shifted, the new list sorted
CopiedShiftedSorted(h, lref, minimum_approach_temp_diff) ==
    Only({ SortStreams(ShiftCold(c, c[Len(c)].items, 1, minimum_approach_temp_diff),
                       Len(c))
           : c \in {deepcopy(h, lref)} })

\* stream.py 393-399: the streams of the list that belong to temp_range
Targets(h, refs, temp_range) ==
    Filter(refs, [i \in 1..Len(refs) |->
                     /\ contain_temperature(Deref(h, refs[i]), temp_range.start)
                     /\ contain_temperature(Deref(h, refs[i]), temp_range.finish)
                     /\ temp_range.delta = Zero => is_isothermal(Deref(h, refs[i]))])

\* stream.py 402-406: copy(target_stream), and update_temperature on the copy
\* unless it is isothermal, which gives the copy a range object of its own
RECURSIVE CopyTargets(_, _, _, _)
CopyTargets(h, targets, k, temp_range) ==
    IF k > Len(targets) THEN h
    ELSE IF is_isothermal(Deref(h, targets[k]))
    THEN CopyTargets(Append(h, h[targets[k]]), targets, k + 1, temp_range)
    ELSE CopyTargets(
             Append(Append(h, [h[targets[k]] EXCEPT
                                  !.temperature_range = Len(h) + 2,
                                  !.heat_flow =
                                      update_temperature(
                                          Deref(h, targets[k]), temp_range.start,
                                          temp_range.finish).stream.heat_flow]),
                    TemperatureRange(temp_range.start, temp_range.finish)),
             targets, k + 1, temp_range)

\* the objects get_temperature_range_streams makes, from range j
RECURSIVE CopyRangeStreams(_, _, _, _)
CopyRangeStreams(h, refs, temp_ranges, j) ==
    IF j > Len(temp_ranges) THEN h
    ELSE CopyRangeStreams(
             CopyTargets(h, Targets(h, refs, temp_ranges[j]), 1, temp_ranges[j]),
             refs, temp_ranges, j + 1)

\* lines 43-63 of GrandCompositeCurve.__init__ on the sorted list, the last
\* object of c
CurveOnHeap(c, minimum_approach_temp_diff) ==
    Only({ Only({ Only({ [err |-> r.err,
                          gcc |-> IF r.err # "" THEN None
                                  ELSE Some([r.gcc[1] EXCEPT
                                                !.external_streams = external]),
                          heap |-> CopyRangeStreams(c, internal, trs.temp_ranges, 1)]
                         : r \in {IF trs.err # "" THEN [err |-> trs.err, gcc |-> None]
                                  ELSE CurveOfRanges(minimum_approach_temp_diff,
                                                     DerefList(c, external), trs)} })
                  : trs \in {get_temperature_range_streams(DerefList(c, internal))} })
           : external \in {Filter(c[Len(c)].items,
                                  [i \in 1..Len(c[Len(c)].items) |->
                                      is_external(c[c[Len(c)].items[i]])])},
             internal \in {Filter(c[Len(c)].items,
                                  [i \in 1..Len(c[Len(c)].items) |->
                                      is_internal(c[c[Len(c)].items[i]])])} })

\* GrandCompositeCurve(streams_, minimum_approach_temp_diff) on the heap:
\* [err, gcc, heap], external_streams of gcc being references
GrandCompositeCurveOnHeap(h, lref, minimum_approach_temp_diff) ==
    CurveOnHeap(CopiedShiftedSorted(h, lref, minimum_approach_temp_diff),
                minimum_approach_temp_diff)

\* abs(x)
RAbs(x) == <<Abs(x[1]), x[2]>>

\* the heat at which the curve between points i and i + 1 takes the target
\* temperature, at least 0 and not limited by what is left
ClippedHeat_unbounded(target_temperature, heats, temps, not_heated, i) ==
    RMaxOf(Zero,
           IF temps[i] # temps[i + 1]
           THEN RAdd(RMul(RDiv(R(1), RDiv(RSub(temps[i + 1], temps[i]),
                                          RSub(heats[i + 1], heats[i]))),
                          RSub(target_temperature, temps[i])),
                     heats[i])
           ELSE heats[i])

\* grand_composite_curve.py 243-250: the heat at which the curve between
\* points i and i + 1 takes the target temperature, within 0 and not_heated
ClippedHeat(target_temperature, heats, temps, not_heated, i) ==
    RMaxOf(Zero,
           RMinOf(IF temps[i] # temps[i + 1]
                  THEN RAdd(RMul(RDiv(R(1), RDiv(RSub(temps[i + 1], temps[i]),
                                                 RSub(heats[i + 1], heats[i]))),
                                 RSub(target_temperature, temps[i])),
                            heats[i])
                  ELSE heats[i],
                  not_heated))

\* lines 229-256, the loop over the points from i: the heat update_heat is
\* called with, None when the loop ends without the call
RECURSIVE HeatOfTarget(_, _, _, _, _)
HeatOfTarget(s, heats, temps, not_heated, i) ==
    IF i > Len(heats) THEN None
    ELSE IF i = Len(heats)
    THEN IF \/ is_hot(s) /\ RLe(temps[i], output_temperature(s))
            \/ is_cold(s) /\ RLe(output_temperature(s), temps[i])
         THEN Some(not_heated)
         ELSE None
    ELSE IF heats[i] = heats[i + 1]
    THEN HeatOfTarget(s, heats, temps, not_heated, i + 1)
    ELSE IF Contains(TemperatureRange(temps[i], temps[i + 1]), output_temperature(s))
    THEN Some(ClippedHeat(output_temperature(s), heats, temps, not_heated, i))
    ELSE HeatOfTarget(s, heats, temps, not_heated, i + 1)

\* lines 220-256, the loop over the sorted streams from item k: the heap after
\* the calls of update_heat
RECURSIVE UpdateLoop(_, _, _, _, _, _, _)
UpdateLoop(h, refs, k, not_heated, heats, temps, pinch_point) ==
    IF k > Len(refs) THEN h
    ELSE Only({
        IF \/ heat(s) # Zero
           \/ is_hot(s) /\ RLt(output_temperature(s), pinch_point)
           \/ is_cold(s) /\ RLt(pinch_point, output_temperature(s))
        THEN UpdateLoop(h, refs, k + 1, not_heated, heats, temps, pinch_point)
        ELSE Only({
            IF given = None
            THEN UpdateLoop(h, refs, k + 1, not_heated, heats, temps, pinch_point)
            ELSE UpdateLoop([h EXCEPT ![refs[k]].heat_flow = given[1]], refs, k + 1,
                            RSub(not_heated, given[1]), heats, temps, pinch_point)
            : given \in {HeatOfTarget(s, heats, temps, not_heated, 1)} })
        : s \in {Deref(h, refs[k])} })

\* _update_external_streams_heat(streams, heats, temps, pinch_point): the
\* list sorted by the distance of the outlet from the pinch point, and the
\* heap after the updates
_update_external_streams_heat(h, refs, heats, temps, pinch_point) ==
    Only({ [streams |-> sorted,
            heap |-> UpdateLoop(h, sorted, 1, heats[Len(heats)], heats, temps,
                                pinch_point)]
           : sorted \in {SortBy(refs,
                                [i \in 1..Len(refs) |->
                                    RAbs(RSub(output_temperature(Deref(h, refs[i])),
                                              pinch_point))])} })

\* s[i::-1] for the index i of Python
Backwards(s, i) == [j \in 1..(i + 1) |-> s[i + 2 - j]]

\* _update_external_streams(external_cold_streams, external_hot_streams)
_update_external_streams(h, self, external_cold_streams, external_hot_streams) ==
    Only({ Only({ [streams |-> hot.streams \o cold.streams, heap |-> cold.heap]
                  : cold \in {_update_external_streams_heat(
                                  hot.heap, external_cold_streams,
                                  Backwards(self.heats, self.minimum_pinch_point_index),
                                  Backwards(self.temps, self.minimum_pinch_point_index),
                                  self.minimum_pinch_point_temp)} })
           : hot \in {_update_external_streams_heat(
                          h, external_hot_streams,
                          SubSeq(self.heats, self.maximum_pinch_point_index + 1,
                                 Len(self.heats)),
                          SubSeq(self.temps, self.maximum_pinch_point_index + 1,
                                 Len(self.temps)),
                          self.maximum_pinch_point_temp)} })

\* {stream.id_: stream.heat() for stream in streams}: a later stream with the
\* id of an earlier one replaces its heat
IdHeats(h, refs) ==
    [id_ \in {h[refs[i]].id_ : i \in 1..Len(refs)} |->
        h[refs[CHOOSE i \in 1..Len(refs) :
                  /\ h[refs[i]].id_ = id_
                  /\ \A j \in (i + 1)..Len(refs) : h[refs[j]].id_ # id_]].heat_flow]

\* gcc.solve_external_heat() of a constructed curve: [id_heats, heap]
solve_external_heat(h, self) ==
    Only({ [id_heats |-> IdHeats(u.heap, u.streams), heap |-> u.heap]
           : u \in {_update_external_streams(
                        h, self,
                        Filter(self.external_streams,
                               [i \in 1..Len(self.external_streams) |->
                                   is_cold(h[self.external_streams[i]])]),
                        Filter(self.external_streams,
                               [i \in 1..Len(self.external_streams) |->
                                   is_hot(h[self.external_streams[i]])]))} })

\* pinch_analyzer.py 94-97: stream.update_heat(heat) on the streams of the
\* analyzer whose id is in id_heats, from stream k: [err, heap]
RECURSIVE UpdateById(_, _, _, _)
UpdateById(h, refs, k, id_heats) ==
    IF k > Len(refs) THEN [err |-> "", heap |-> h]
    ELSE IF h[refs[k]].id_ \notin DOMAIN id_heats
    THEN UpdateById(h, refs, k + 1, id_heats)
    ELSE IF update_heat(Deref(h, refs[k]), id_heats[h[refs[k]].id_]).err # ""
    THEN [err |-> "ValueError", heap |-> h]
    ELSE UpdateById([h EXCEPT ![refs[k]].heat_flow = id_heats[h[refs[k]].id_]],
                    refs, k + 1, id_heats)

\* lines 93-99 of PinchAnalyzer.__init__: the heats of the external streams
\* and self.streams, the streams with a heat
AnalyzerHeats(refs, v, gcc_, solved) ==
    Only({ [err |-> u.err, message |-> "",
            self |-> IF u.err # "" THEN None
                     ELSE Some([minimum_approach_temp_diff_range |->
                                    v.self.minimum_approach_temp_diff_range,
                                gcc |-> Some(gcc_),
                                external_heating_demand |->
                                    v.self.external_heating_demand,
                                external_cooling_demand |->
                                    v.self.external_cooling_demand,
                                streams |->
                                    Filter(refs, [i \in 1..Len(refs) |->
                                                     u.heap[refs[i]].heat_flow # Zero])]),
            heap |-> u.heap]
           : u \in {UpdateById(solved.heap, refs, 1, solved.id_heats)} })

\* lines 89-99 of PinchAnalyzer.__init__ on the analyzer's copy of the list,
\* the last object of c
AnalyzerCurveOnHeap(c, v, minimum_approach_temp_diff) ==
    Only({ IF g.err # ""
           THEN [err |-> g.err, message |-> "", self |-> None, heap |-> g.heap]
           ELSE AnalyzerHeats(c[Len(c)].items, v, g.gcc[1],
                              solve_external_heat(g.heap, g.gcc[1]))
           : g \in {GrandCompositeCurveOnHeap(c, Len(c), minimum_approach_temp_diff)} })

\* PinchAnalyzer(streams_, minimum_approach_temp_diff, force_validation) on the
\* heap, lines 61-99: [err, message, self, heap]; the lines after these work on
\* copies made with copy() and deepcopy() and change no stream of self.streams
PinchAnalyzerOnHeap(h, lref, minimum_approach_temp_diff, force_validation) ==
    Only({ Only({ IF v.err # "" /\ v.self.gcc = None
                     /\ (v.err = "PyHeatIntegrationError"
                         \/ v.self.minimum_approach_temp_diff_range = None)
                  THEN [err |-> v.err, message |-> v.message, self |-> None, heap |-> c]
                  ELSE AnalyzerCurveOnHeap(c, v, minimum_approach_temp_diff)
                  : v \in {PinchAnalyzerInit(DerefList(c, c[Len(c)].items),
                                             minimum_approach_temp_diff,
                                             force_validation)} })
           : c \in {deepcopy(h, lref)} })

----------------------------------------------------------------------------
(* tq_diagram.py: _get_heat_at_pinch_point and _shift_curve.  A PlotSegment
   object holds the references of its HeatRange and of its TemperatureRange
   object; three objects are made for one PlotSegment. *)

\* heat_range.py, line 7
REL_TOL_DIGIT == 9

\* the first k decimal digits of r / d, 0 <= r < d, as a number, and what is
\* left of r: <<digits, remainder>>
RECURSIVE Decimals(_, _, _)
Decimals(r, d, k) ==
    IF k = 0 THEN <<0, r>>
    ELSE Only({ <<10 * b[1] + (10 * b[2]) \div d, (10 * b[2]) % d>>
                : b \in {Decimals(r, d, k - 1)} })

\* the digits of |number| after the point rounded to ndigits places, the half
\* going to the even digit
RoundedDigits(number, ndigits) ==
    Only({ IF 2 * b[2] > number[2] \/ (2 * b[2] = number[2] /\ b[1] % 2 = 1)
           THEN b[1] + 1 ELSE b[1]
           : b \in {Decimals(Abs(number[1]) % number[2], number[2], ndigits)} })

\* round(number, ndigits): the multiple of 10^-ndigits nearest to number
round(number, ndigits) ==
    Only({ IF number[1] < 0 THEN RSub(Zero, magnitude) ELSE magnitude
           : magnitude \in {RAdd(R(Abs(number[1]) \div number[2]),
                                 Rat(RoundedDigits(number, ndigits), 10 ^ ndigits))} })

\* PlotSegment.contain_temperature(temperature)
PlotSegment_contain_temperature(ps, temperature) == Contains(ps.temperature_range, temperature)

\* PlotSegment.heat_at_temperature(temperature), on a segment that contains
\* temperature and has a slope that is not zero
heat_at_temperature(ps, temperature) ==
    Only({ RAdd(RMul(RDiv(R(1), slope), RSub(temperature, ps.temperature_range.start)),
                ps.heat_range.start)
           : slope \in {RDiv(RSub(ps.temperature_range.finish, ps.temperature_range.start),
                             RSub(ps.heat_range.finish, ps.heat_range.start))} })

\* lambda x: x.finish_heat() and lambda x: x.start_heat(), the two values of
\* get_temp
get_temp_of(get_temp, ps) ==
    IF get_temp = "finish_heat" THEN ps.heat_range.finish ELSE ps.heat_range.start

\* _get_heat_at_pinch_point(plot_segments, pinch_point_temp, get_temp):
\* [err, heat], from the first segment that contains the temperature and has
\* a heat width
RECURSIVE _get_heat_at_pinch_point(_, _, _)
_get_heat_at_pinch_point(plot_segments, pinch_point_temp, get_temp) ==
    IF plot_segments = <<>> THEN [err |-> "RuntimeError", heat |-> Zero]
    ELSE Only({ IF /\ PlotSegment_contain_temperature(ps, pinch_point_temp)
                   /\ ps.heat_range.delta # Zero
                THEN IF ps.temperature_range.delta = Zero
                     THEN [err |-> "", heat |-> get_temp_of(get_temp, ps)]
                     ELSE [err |-> "", heat |-> heat_at_temperature(ps, pinch_point_temp)]
                ELSE _get_heat_at_pinch_point(Tail(plot_segments), pinch_point_temp, get_temp)
                : ps \in {Head(plot_segments)} })

\* plot_segment.is_continuous(plot_segments)
PlotSegments_is_continuous(plot_segments) ==
    is_continuous(SortRanges(HeatRangesOf(plot_segments)))

\* the PlotSegment at reference r with its two ranges read through
DerefPiece(h, r) ==
    [h[r] EXCEPT !.heat_range = h[h[r].heat_range],
                 !.temperature_range = h[h[r].temperature_range]]

DerefPieces(h, refs) == [i \in 1..Len(refs) |-> DerefPiece(h, refs[i])]

\* PlotSegment.__init__ on the heap: the HeatRange object, the
\* TemperatureRange object, then the PlotSegment object, which is the last
AllocatePiece(h, ps) ==
    Append(Append(Append(h, ps.heat_range), ps.temperature_range),
           [ps EXCEPT !.heat_range = Len(h) + 1, !.temperature_range = Len(h) + 2])

\* the heap of a list of plot segments: the objects of the segments, then
\* the list object, which is the last
RECURSIVE HeapOfPieces(_, _, _)
HeapOfPieces(h, pieces, k) ==
    IF k > Len(pieces)
    THEN Append(h, [items |-> [i \in 1..Len(pieces) |-> Len(h) - 3 * (Len(pieces) - i)]])
    ELSE HeapOfPieces(AllocatePiece(h, pieces[k]), pieces, k + 1)

\* a new list of the same PlotSegment objects
ListOfSamePieces(h, lref) == Append(h, h[lref])

\* deepcopy(plot_segments_) of a list of distinct segments: the heap with the
\* copies, the new list being the last object
deepcopy_plot_segments(h, lref) ==
    HeapOfPieces(h, DerefPieces(h, h[lref].items), 1)

\* sorted(plot_segments): a new list, the last object, of the same segments
\* in the order of the starts of their heat ranges (a stable sort)
sorted_plot_segments(h, lref) ==
    Append(h, [items |->
        SortBy(h[lref].items,
               [i \in 1..Len(h[lref].items) |->
                   DerefPiece(h, h[lref].items[i]).heat_range.start])])

\* sorted(deepcopy(plot_segments_)): the sorted list is the last object
SortedCopy(h, lref) ==
    Only({ sorted_plot_segments(c, Len(c)) : c \in {deepcopy_plot_segments(h, lref)} })

\* lines 116-117: plot_segment.shift_heat(gap) on the segments of the list
\* from item k
RECURSIVE ShiftPieces(_, _, _, _)
ShiftPieces(h, refs, k, gap) ==
    IF k > Len(refs) THEN h
    ELSE ShiftPieces([h EXCEPT ![h[refs[k]].heat_range] = Shift(@, gap)], refs, k + 1, gap)

\* lines 105-111 and 112-114: the gap between the heats of the two curves at
\* the pinch point: [err, gap]
GapAtPinchPoint(hot_plot_segments, cold_plot_segments, minimum_approach_temp_diff, pinch_point_temp) ==
    Only({ IF hot_heat_at_pinch_point.err # ""
           THEN [err |-> hot_heat_at_pinch_point.err, gap |-> Zero]
           ELSE IF cold_heat_at_pinch_point.err # ""
           THEN [err |-> cold_heat_at_pinch_point.err, gap |-> Zero]
           ELSE [err |-> "",
                 gap |-> round(RSub(hot_heat_at_pinch_point.heat,
                                    cold_heat_at_pinch_point.heat), REL_TOL_DIGIT)]
           : hot_heat_at_pinch_point \in
                 {_get_heat_at_pinch_point(hot_plot_segments, pinch_point_temp,
                                           "finish_heat")},
             cold_heat_at_pinch_point \in
                 {_get_heat_at_pinch_point(cold_plot_segments,
                                           RSub(pinch_point_temp, minimum_approach_temp_diff),
                                           "start_heat")} })

\* lines 98-119 on the two sorted copies, hot_ref and cold_ref being the
\* references of their lists: [err, hot, cold, heap]
ShiftCopies(h, hot_ref, cold_ref, minimum_approach_temp_diff, pinch_point_temp) ==
    Only({ IF \/ PlotSegments_is_continuous(hot_plot_segments) # None
              \/ PlotSegments_is_continuous(cold_plot_segments) # None
           THEN [err |-> "ValueError", hot |-> 0, cold |-> 0, heap |-> h]
           ELSE Only({ IF gap.err # ""
                       THEN [err |-> gap.err, hot |-> 0, cold |-> 0, heap |-> h]
                       ELSE [err |-> "", hot |-> hot_ref, cold |-> cold_ref,
                             heap |-> ShiftPieces(h, h[cold_ref].items, 1, gap.gap)]
                       : gap \in {GapAtPinchPoint(hot_plot_segments, cold_plot_segments,
                                                  minimum_approach_temp_diff,
                                                  pinch_point_temp)} })
           : hot_plot_segments \in {DerefPieces(h, h[hot_ref].items)},
             cold_plot_segments \in {DerefPieces(h, h[cold_ref].items)} })

\* _shift_curve(hot_plot_segments_, cold_plot_segments_,
\* minimum_approach_temp_diff, pinch_point_temp) on the lists at the
\* references hot_ and cold_: [err, hot, cold, heap], hot and cold being the
\* references of the lists returned
_shift_curve(h, hot_, cold_, minimum_approach_temp_diff, pinch_point_temp) ==
    Only({ Only({ ShiftCopies(with_cold, Len(with_hot), Len(with_cold),
                              minimum_approach_temp_diff, pinch_point_temp)
                  : with_cold \in {SortedCopy(with_hot, cold_)} })
           : with_hot \in {SortedCopy(h, hot_)} })

----------------------------------------------------------------------------
(* segment.py: class Segment.  A dictionary from heat ranges to plot
   segments is a function on the set of its keys. *)

\* Segment.round without the rounding
Segment_round_none(x) == x

\* Segment.round(x)
Segment_round(x) == round(x, REL_TOL_DIGIT)

\* init_plot_segments_separated_streams: the segments of streams[i],
\* streams[i + 1], ..., start_heat being the value of the variable of that
\* name when the loop comes to stream i
RECURSIVE SeparatedStreamsFrom(_, _, _, _, _)
SeparatedStreamsFrom(self_heat_range, streams_, temperature_range, i, start_heat_) ==
    IF i > Len(streams_) THEN <<>>
    ELSE Only({ Only({ <<PlotSegment(start_heat, finish_heat, temperature_range.start,
                                     temperature_range.finish, streams_[i].id_,
                                     "UNKNOWN", FALSE)>>
                       \o SeparatedStreamsFrom(self_heat_range, streams_, temperature_range,
                                               i + 1, RAdd(start_heat, heat(streams_[i])))
                       : finish_heat \in
                             {IF i = Len(streams_) THEN Segment_round(self_heat_range.finish)
                              ELSE Segment_round(RAdd(start_heat, heat(streams_[i])))} })
                : start_heat \in {Segment_round(start_heat_)} })

\* Segment.init_plot_segments_separated_streams(streams, temperature_range)
init_plot_segments_separated_streams(self_heat_range, streams_, temperature_range) ==
    SeparatedStreamsFrom(self_heat_range, streams_, temperature_range, 1,
                         self_heat_range.start)

\* the plot segment of the whole Segment on one side, and the segments of the
\* streams of that side: nothing when the temperatures are None
SideOfSegment(self_heat_range, temperatures, streams_) ==
    IF temperatures = None
    THEN [temperature_range |-> None, plot_segments |-> <<>>, separated_streams |-> <<>>]
    ELSE Only({ [temperature_range |-> Some(temperature_range),
                 plot_segments |->
                     <<PlotSegment(self_heat_range.start, self_heat_range.finish,
                                   temperature_range.start, temperature_range.finish,
                                   "uuid", "UNKNOWN", FALSE)>>,
                 separated_streams |->
                     init_plot_segments_separated_streams(self_heat_range, streams_,
                                                          temperature_range)]
                : temperature_range \in
                      {TemperatureRange(temperatures[1][1], temperatures[1][2])} })

\* lines 67-87 of Segment.__init__: [err, self]
SegmentOfSides(self_heat_range, hot, cold, hot_streams_, cold_streams_) ==
    Only({ IF hot_heats.err # "" \/ cold_heats.err # ""
           THEN [err |-> "ValueError", self |-> None]
           ELSE Only({ [err |-> "",
                        self |-> Some(
                            [heat_range |-> self_heat_range,
                             hot_streams |-> hot_streams_,
                             cold_streams |-> cold_streams_,
                             hot_temperature_range |-> hot.temperature_range,
                             cold_temperature_range |-> cold.temperature_range,
                             hot_plot_segments |-> hot.plot_segments,
                             cold_plot_segments |-> cold.plot_segments,
                             hot_plot_segments_separated_streams |-> hot.separated_streams,
                             cold_plot_segments_separated_streams |-> cold.separated_streams,
                             heat_ranges |-> heat_ranges,
                             hot_plot_segments_separated |->
                                 get_plot_segments(heat_ranges, hot.separated_streams),
                             cold_plot_segments_separated |->
                                 get_plot_segments(heat_ranges, cold.separated_streams),
                             hot_plot_segments_splitted |-> None,
                             cold_plot_segments_splitted |-> None])]
                       : heat_ranges \in
                             {get_heat_ranges(SortSet(
                                 {hot_heats.heats[i] : i \in 1..Len(hot_heats.heats)}
                                 \cup {cold_heats.heats[i] : i \in 1..Len(cold_heats.heats)}))} })
           : hot_heats \in {get_heats(HeatRangesOf(hot.separated_streams))},
             cold_heats \in {get_heats(HeatRangesOf(cold.separated_streams))} })

\* Segment(heats, hot_temperatures, cold_temperatures, hot_streams_,
\* cold_streams_): [err, self]; hot_temperatures and cold_temperatures are
\* None or a pair
Segment(heats, hot_temperatures, cold_temperatures, hot_streams_, cold_streams_) ==
    Only({ SegmentOfSides(self_heat_range,
                          SideOfSegment(self_heat_range, hot_temperatures, hot_streams_),
                          SideOfSegment(self_heat_range, cold_temperatures, cold_streams_),
                          hot_streams_, cold_streams_)
           : self_heat_range \in {HeatRange(heats[1], heats[2])} })

\* temp_diff(segment, other)
temp_diff(segment, other) ==
    <<RSub(segment.temperature_range.start, other.temperature_range.start),
      RSub(segment.temperature_range.finish, other.temperature_range.finish)>>

\* the segment of the heat range with the temperature range of the Segment
\* and the uuid of plot_segment
FullRangePiece(heat_range, temperature_range, plot_segment) ==
    PlotSegment(heat_range.start, heat_range.finish, temperature_range.start,
                temperature_range.finish, plot_segment.uuid, "UNKNOWN", FALSE)

\* lines 181-205 of Segment.split: the dictionary of one side after the
\* segment at heat_range and the segments of the same uuid at the other heat
\* ranges are replaced
ReplacedForStream(heat_range_plot_segment, heat_range, temperature_range, plot_segment) ==
    [heat_range_ \in DOMAIN heat_range_plot_segment |->
        IF \/ heat_range_ = heat_range
           \/ heat_range_plot_segment[heat_range_].uuid = plot_segment.uuid
        THEN FullRangePiece(heat_range_, temperature_range, plot_segment)
        ELSE heat_range_plot_segment[heat_range_]]

\* the loop of Segment.split from the heat range i on: the two dictionaries
\* <<hot, cold>> when it ends
RECURSIVE SplitLoop(_, _, _, _, _)
SplitLoop(self, minimum_temp_diff, i, hot, cold) ==
    IF i > Len(self.heat_ranges) THEN <<hot, cold>>
    ELSE Only({ IF heat_range \notin DOMAIN hot \/ heat_range \notin DOMAIN cold
                THEN SplitLoop(self, minimum_temp_diff, i + 1, hot, cold)
                ELSE Only({ IF \/ RLt(diff[1], minimum_temp_diff)
                               \/ RLt(diff[2], minimum_temp_diff)
                            THEN SplitLoop(self, minimum_temp_diff, i + 1,
                                           ReplacedForStream(hot, heat_range,
                                                             self.hot_temperature_range[1],
                                                             hot[heat_range]),
                                           ReplacedForStream(cold, heat_range,
                                                             self.cold_temperature_range[1],
                                                             cold[heat_range]))
                            ELSE SplitLoop(self, minimum_temp_diff, i + 1, hot, cold)
                            : diff \in {temp_diff(hot[heat_range], cold[heat_range])} })
                : heat_range \in {self.heat_ranges[i]} })

\* sorted(list(heat_range_plot_segment.values()))
SortedValues(heat_range_plot_segment) ==
    Only({ [i \in 1..Len(starts) |->
               heat_range_plot_segment[CHOOSE r \in DOMAIN heat_range_plot_segment
                                           : r.start = starts[i]]]
           : starts \in {SortSet({r.start : r \in DOMAIN heat_range_plot_segment})} })

\* Segment.split(minimum_approach_temp_diff): self after the call
split(self, minimum_approach_temp_diff) ==
    Only({ [self EXCEPT !.hot_plot_segments_splitted = Some(SortedValues(dicts[1])),
                        !.cold_plot_segments_splitted = Some(SortedValues(dicts[2]))]
           : dicts \in {SplitLoop(self, minimum_approach_temp_diff, 1,
                                  ByHeatRange(self.hot_plot_segments_separated),
                                  ByHeatRange(self.cold_plot_segments_separated))} })

----------------------------------------------------------------------------
(* tq_diagram.py: _get_segments, _merge_segments and class TQDiagram;
   heat_exchanger.py: class HeatExchanger. *)

\* Stream.contain_temperatures(temperatures)
contain_temperatures(s, temperatures) ==
    \A i \in 1..Len(temperatures) : Contains(s.temperature_range, temperatures[i])

\* dictionary.get(heat_range, None)
GetOrNone(heat_range_plot_segment, heat_range) ==
    IF heat_range \in DOMAIN heat_range_plot_segment
    THEN Some(heat_range_plot_segment[heat_range])
    ELSE None

\* lines 158-171 and 176-190 of _get_segments: the copies of the streams that
\* take the temperatures temp_range of the plot segment of one side of
\* heat_range, an isothermal copy with the heat of the heat range and another
\* copy with the temperatures of the plot segment
StreamsOfTemperatureRange(streams_, temp_range, heat_range) ==
    Only({ [i \in 1..Len(taken) |->
               IF temp_range.delta = Zero
               THEN update_heat(taken[i], heat_range.delta).stream
               ELSE update_temperature(taken[i], temp_range.start,
                                       temp_range.finish).stream]
           : taken \in
               {Filter(streams_,
                       [i \in 1..Len(streams_) |->
                           /\ contain_temperatures(streams_[i],
                                  <<temp_range.start, temp_range.finish>>)
                           /\ (temp_range.delta = Zero) = is_isothermal(streams_[i])])} })

\* the temperatures and the streams of one side of heat_range, plot_segment
\* being the plot segment of the side or None: <<temperatures, streams>>
SideOfHeatRange(streams_, plot_segment, heat_range) ==
    IF plot_segment = None THEN <<None, <<>>>>
    ELSE <<Some(<<plot_segment[1].temperature_range.start,
                  plot_segment[1].temperature_range.finish>>),
           StreamsOfTemperatureRange(streams_, plot_segment[1].temperature_range,
                                     heat_range)>>

\* lines 153-207 of _get_segments: the Segment of heat_range, [err, self]
SegmentOfHeatRange(heat_range, hot_heat_range_plot_segment, cold_heat_range_plot_segment, hot_streams, cold_streams) ==
    Only({ Segment(<<heat_range.start, heat_range.finish>>, hot[1], cold[1], hot[2], cold[2])
           : hot \in {SideOfHeatRange(hot_streams,
                                      GetOrNone(hot_heat_range_plot_segment, heat_range),
                                      heat_range)},
             cold \in {SideOfHeatRange(cold_streams,
                                       GetOrNone(cold_heat_range_plot_segment, heat_range),
                                       heat_range)} })

\* the first error of a list of results, "" if there is none
FirstError(results) ==
    IF \A i \in 1..Len(results) : results[i].err = "" THEN ""
    ELSE results[CHOOSE i \in 1..Len(results) :
                     /\ results[i].err # ""
                     /\ \A j \in 1..(i - 1) : results[j].err = ""].err

\* lines 146-207 of _get_segments, heat_ranges being the detailed heat ranges:
\* [err, segments]
SegmentsOfHeatRanges(heat_ranges, hot_plot_segments, cold_plot_segments, hot_streams, cold_streams) ==
    Only({ [err |-> FirstError(made),
            segments |-> IF FirstError(made) # "" THEN <<>>
                         ELSE [i \in 1..Len(made) |-> made[i].self[1]]]
           : made \in
               {[i \in 1..Len(heat_ranges) |->
                    SegmentOfHeatRange(heat_ranges[i], hot, cold, hot_streams, cold_streams)]
                : hot \in {ByHeatRange(get_plot_segments(heat_ranges, hot_plot_segments))},
                  cold \in {ByHeatRange(get_plot_segments(heat_ranges, cold_plot_segments))}} })

\* _get_segments(hot_plot_segments, cold_plot_segments, hot_streams,
\* cold_streams): [err, segments]
_get_segments(hot_plot_segments, cold_plot_segments, hot_streams, cold_streams) ==
    Only({ IF ranges.err # "" THEN [err |-> ranges.err, segments |-> <<>>]
           ELSE SegmentsOfHeatRanges(ranges.heat_ranges, hot_plot_segments,
                                     cold_plot_segments, hot_streams, cold_streams)
           : ranges \in {get_detailed_heat_ranges(<<HeatRangesOf(hot_plot_segments),
                                                    HeatRangesOf(cold_plot_segments)>>)} })

\* Segments.split(minimum_approach_temp_diff)
Segments_split(segments, minimum_approach_temp_diff) ==
    [i \in 1..Len(segments) |-> split(segments[i], minimum_approach_temp_diff)]

\* the concatenation of the lists of a list
RECURSIVE Concat(_)
Concat(lists) ==
    IF lists = <<>> THEN <<>> ELSE Head(lists) \o Concat(Tail(lists))

\* sorted(plot_segments): the order of the starts of the heat ranges
SortedPlotSegments(plot_segments) ==
    SortBy(plot_segments,
           [i \in 1..Len(plot_segments) |-> plot_segments[i].heat_range.start])

\* PlotSegment.mergiable(other)
mergiable(self, other) ==
    /\ self.uuid = other.uuid
    /\ self.heat_range.finish = other.heat_range.start
    /\ self.temperature_range.finish = other.temperature_range.start

\* lines 250-262 of _merge_segments: heat_ranges[i] and heat_ranges[i + 1]
\* have a hot and a cold plot segment and both pairs can be merged
MergedAt(heat_ranges, hot, cold, i) ==
    /\ heat_ranges[i] \in DOMAIN hot
    /\ heat_ranges[i] \in DOMAIN cold
    /\ heat_ranges[i + 1] \in DOMAIN hot
    /\ heat_ranges[i + 1] \in DOMAIN cold
    /\ mergiable(hot[heat_ranges[i]], hot[heat_ranges[i + 1]])
    /\ mergiable(cold[heat_ranges[i]], cold[heat_ranges[i + 1]])

\* lines 263-276: the plot segment made of those of heat_ranges[i] and
\* heat_ranges[i + 1] in the dictionary of one side
MergedPlotSegment(heat_ranges, heat_range_plot_segment, i) ==
    Only({ PlotSegment(merged_heat_range.start, merged_heat_range.finish,
                       merged_temp_range.start, merged_temp_range.finish,
                       heat_range_plot_segment[heat_ranges[i]].uuid, "UNKNOWN", FALSE)
           : merged_heat_range \in
                 {HeatRange_merge(hot_range, next_hot_range).range[1]
                  : hot_range \in {heat_ranges[i]},
                    next_hot_range \in {heat_ranges[i + 1]}},
             merged_temp_range \in
                 {MergedRange(heat_range_plot_segment[heat_ranges[i]].temperature_range,
                              heat_range_plot_segment[heat_ranges[i + 1]].temperature_range)} })

\* the segments that were not merged alone
WithoutMerged(plot_segments, merged_heat_ranges, merged_plot_segments) ==
    SortedPlotSegments(
        Filter(plot_segments,
               [k \in 1..Len(plot_segments) |->
                   plot_segments[k].heat_range \notin merged_heat_ranges]))

\* lines 278-284: the segments that were not merged, then the merged ones,
\* sorted
WithMerged(plot_segments, merged_heat_ranges, merged_plot_segments) ==
    SortedPlotSegments(
        Filter(plot_segments,
               [k \in 1..Len(plot_segments) |->
                   plot_segments[k].heat_range \notin merged_heat_ranges])
        \o merged_plot_segments)

\* the merging of lines 246-284 on the sorted split segments, their
\* dictionaries hot and cold and the heat ranges of the segments, order being
\* the indices at which two heat ranges are merged: <<hot, cold>>
MergedInOrder(hot_plot_segments, cold_plot_segments, heat_ranges, hot, cold, order) ==
    Only({ <<WithMerged(hot_plot_segments, merged_heat_ranges,
                        [k \in 1..Len(order) |->
                            MergedPlotSegment(heat_ranges, hot, order[k])]),
             WithMerged(cold_plot_segments, merged_heat_ranges,
                        [k \in 1..Len(order) |->
                            MergedPlotSegment(heat_ranges, cold, order[k])])>>
           : merged_heat_ranges \in
                 {{heat_ranges[order[k]] : k \in 1..Len(order)}
                      \cup {heat_ranges[order[k] + 1] : k \in 1..Len(order)}} })

\* lines 232-284 of _merge_segments: <<hot, cold>>
MergedLists(hot_plot_segments, cold_plot_segments, heat_ranges) ==
    Only({ MergedInOrder(hot_plot_segments, cold_plot_segments, heat_ranges, hot, cold,
                         Filter([i \in 1..(Len(heat_ranges) - 1) |-> i],
                                [i \in 1..(Len(heat_ranges) - 1) |->
                                    MergedAt(heat_ranges, hot, cold, i)]))
           : hot \in {ByHeatRange(hot_plot_segments)},
             cold \in {ByHeatRange(cold_plot_segments)} })

\* _merge_segments(segments_): [err, hot, cold]
_merge_segments(segments_) ==
    Only({ IF heats.err # "" THEN [err |-> heats.err, hot |-> <<>>, cold |-> <<>>]
           ELSE Only({ [err |-> "", hot |-> merged[1], cold |-> merged[2]]
                       : merged \in
                           {MergedLists(
                                SortedPlotSegments(Concat(
                                    [i \in 1..Len(segments_) |->
                                        segments_[i].hot_plot_segments_splitted[1]])),
                                SortedPlotSegments(Concat(
                                    [i \in 1..Len(segments_) |->
                                        segments_[i].cold_plot_segments_splitted[1]])),
                                get_heat_ranges(heats.heats))} })
           : heats \in {get_heats(SortRanges(Concat(
                            [i \in 1..Len(segments_) |-> segments_[i].heat_ranges])))} })

\* HeatExchanger.init_lmtd_counterflow raises: the logarithm of lines 171-172
\* is taken of a quotient by zero (ZeroDivisionError) or of a number that is
\* not positive (ValueError); "" if it returns
LmtdCounterflowError(hot_temperature_range, cold_temperature_range) ==
    Only({ IF start_temp_diff = finish_temp_diff THEN ""
           ELSE IF finish_temp_diff = Zero THEN "ZeroDivisionError"
           ELSE IF RLe(RDiv(start_temp_diff, finish_temp_diff), Zero) THEN "ValueError"
           ELSE ""
           : start_temp_diff \in {RSub(hot_temperature_range.finish,
                                       cold_temperature_range.finish)},
             finish_temp_diff \in {RSub(hot_temperature_range.start,
                                        cold_temperature_range.start)} })

\* the value HeatExchanger.init_lmtd_counterflow returns: the logarithmic mean
\* of start_temp_diff and finish_temp_diff, which is start_temp_diff when the
\* two are equal.  The mean is kept as the pair of the two differences; it is
\* zero only when both are
init_lmtd_counterflow(hot_temperature_range, cold_temperature_range) ==
    <<RSub(hot_temperature_range.finish, cold_temperature_range.finish),
      RSub(hot_temperature_range.start, cold_temperature_range.start)>>

\* HeatExchanger(heat_range, hot_plot_segment, cold_plot_segment), a
\* counterflow exchanger: [err, self]
HeatExchanger(heat_range, hot_plot_segment, cold_plot_segment) ==
    [err |-> LmtdCounterflowError(hot_plot_segment.temperature_range,
                                  cold_plot_segment.temperature_range),
     self |-> [heat_range |-> heat_range,
               lmtd |-> init_lmtd_counterflow(hot_plot_segment.temperature_range,
                                              cold_plot_segment.temperature_range),
               hot_plot_segment |-> hot_plot_segment,
               cold_plot_segment |-> cold_plot_segment,
               hot_temperature_range |-> hot_plot_segment.temperature_range,
               cold_temperature_range |-> cold_plot_segment.temperature_range,
               hot_stream_uuid |-> hot_plot_segment.uuid,
               cold_stream_uuid |-> cold_plot_segment.uuid,
               hot_stream_state |-> hot_plot_segment.state,
               cold_stream_state |-> cold_plot_segment.state,
               reboiler_or_reactor |-> hot_plot_segment.reboiler_or_reactor
                                           \/ cold_plot_segment.reboiler_or_reactor]]

\* OVERALL_HEAT_TRANSFER_COEFFICIENT[hot_stream_state][cold_stream_state]
OVERALL_HEAT_TRANSFER_COEFFICIENT ==
    [hot_stream_state \in {"LIQUID", "GAS", "GAS_CONDENSATION"} |->
        [cold_stream_state \in {"LIQUID", "GAS", "LIQUID_EVAPORATION"} |->
            CASE hot_stream_state = "LIQUID" /\ cold_stream_state = "LIQUID" -> R(300)
              [] hot_stream_state = "LIQUID" /\ cold_stream_state = "GAS" -> R(200)
              [] hot_stream_state = "LIQUID" /\ cold_stream_state = "LIQUID_EVAPORATION" -> R(1000)
              [] hot_stream_state = "GAS" /\ cold_stream_state = "LIQUID" -> R(200)
              [] hot_stream_state = "GAS" /\ cold_stream_state = "GAS" -> R(150)
              [] hot_stream_state = "GAS" /\ cold_stream_state = "LIQUID_EVAPORATION" -> R(500)
              [] hot_stream_state = "GAS_CONDENSATION" /\ cold_stream_state = "LIQUID" -> R(1000)
              [] hot_stream_state = "GAS_CONDENSATION" /\ cold_stream_state = "GAS" -> R(500)
              [] OTHER -> R(1500)]]

\* get_overall_heat_transfer_coefficient(hot_stream_state, cold_stream_state):
\* [err, value]
get_overall_heat_transfer_coefficient(hot_stream_state, cold_stream_state) ==
    IF hot_stream_state \notin {"LIQUID", "GAS", "GAS_CONDENSATION"}
    THEN [err |-> "ValueError", value |-> None]
    ELSE IF cold_stream_state \notin {"LIQUID", "GAS", "LIQUID_EVAPORATION"}
    THEN [err |-> "ValueError", value |-> None]
    ELSE [err |-> "",
          value |-> Some(OVERALL_HEAT_TRANSFER_COEFFICIENT[hot_stream_state][cold_stream_state])]

\* self.heat_range.delta / self.lmtd / overall_heat_transfer_coefficient of
\* line 182: [err, value].  The quotient by a logarithmic mean is kept as the
\* record of its three operands; the division raises when the mean is zero
AreaQuotient(self, overall_heat_transfer_coefficient) ==
    IF self.lmtd = <<Zero, Zero>>
    THEN [err |-> "ZeroDivisionError", value |-> None]
    ELSE [err |-> "",
          value |-> Some([heat |-> self.heat_range.delta, lmtd |-> self.lmtd,
                          coefficient |-> overall_heat_transfer_coefficient])]

\* the try block of get_area, lines 178-182: [err, value]
AreaOrError(self) ==
    Only({ IF coefficient.err # "" THEN coefficient
           ELSE AreaQuotient(self, coefficient.value[1])
           : coefficient \in {get_overall_heat_transfer_coefficient(
                                  self.hot_stream_state, self.cold_stream_state)} })

\* get_area with the exception re-raised whatever ignore_unknown is
get_area_raising(self, ignore_unknown) == AreaOrError(self)

\* HeatExchanger.get_area(ignore_unknown): [err, value]; the placeholder of
\* line 185 is the number 1.0
get_area(self, ignore_unknown) ==
    Only({ IF area.err # "" /\ ignore_unknown THEN [err |-> "", value |-> Some(R(1))]
           ELSE area
           : area \in {AreaOrError(self)} })

\* the loop of lines 450-460 of TQDiagram.__init__ (lines 120-130 of
\* PinchAnalyzer.__init__): the heat exchangers of the heat ranges that have
\* a hot and a cold plot segment, [err, heat_exchangers]
HeatExchangersOfRanges(all_heat_ranges, hot_heat_range_plot_segment, cold_heat_range_plot_segment) ==
    Only({ [err |-> FirstError(made),
            heat_exchangers |-> IF FirstError(made) # "" THEN <<>>
                                ELSE [i \in 1..Len(made) |-> made[i].self]]
           : made \in
               {[i \in 1..Len(both) |->
                    HeatExchanger(both[i], hot_heat_range_plot_segment[both[i]],
                                  cold_heat_range_plot_segment[both[i]])]
                : both \in
                    {Filter(all_heat_ranges,
                            [i \in 1..Len(all_heat_ranges) |->
                                /\ all_heat_ranges[i] \in DOMAIN hot_heat_range_plot_segment
                                /\ all_heat_ranges[i] \in DOMAIN cold_heat_range_plot_segment])}} })

\* lines 437-460 of TQDiagram.__init__ (lines 107-130 of
\* PinchAnalyzer.__init__, where the heat ranges are those of
\* get_merged_heat_ranges): the heat exchangers of the merged lists,
\* [err, heat_exchangers]
HeatExchangersOfMerged(hcc_merged, ccc_merged) ==
    Only({ IF all_heat_ranges.err # ""
           THEN [err |-> all_heat_ranges.err, heat_exchangers |-> <<>>]
           ELSE HeatExchangersOfRanges(
                    all_heat_ranges.heat_ranges,
                    ByHeatRange(get_plot_segments(all_heat_ranges.heat_ranges, hcc_merged)),
                    ByHeatRange(get_plot_segments(all_heat_ranges.heat_ranges, ccc_merged)))
           : all_heat_ranges \in
                 {get_detailed_heat_ranges(<<HeatRangesOf(hcc_merged),
                                             HeatRangesOf(ccc_merged)>>)} })

\* the attributes of a TQDiagram whose constructor raised
NoDiagram(error) ==
    [err |-> error, hcc |-> <<>>, ccc |-> <<>>, segments |-> <<>>,
     hcc_merged |-> <<>>, ccc_merged |-> <<>>, heat_exchangers |-> <<>>]

\* lines 432-460 of TQDiagram.__init__ on the shifted curves hcc and ccc and
\* the split segments
MergedDiagram(hcc, ccc, segments) ==
    Only({ IF merged.err # "" THEN NoDiagram(merged.err)
           ELSE Only({ IF made.err # "" THEN NoDiagram(made.err)
                       ELSE [err |-> "", hcc |-> hcc, ccc |-> ccc, segments |-> segments,
                             hcc_merged |-> merged.hot, ccc_merged |-> merged.cold,
                             heat_exchangers |-> made.heat_exchangers]
                       : made \in {HeatExchangersOfMerged(merged.hot, merged.cold)} })
           : merged \in {_merge_segments(segments)} })

\* lines 416-460 of TQDiagram.__init__ on the shifted curves hcc and ccc
DiagramOfCurves(hcc, ccc, hot_streams, cold_streams, minimum_approach_temp_diff) ==
    Only({ IF segments.err # "" THEN NoDiagram(segments.err)
           ELSE MergedDiagram(hcc, ccc,
                              Segments_split(segments.segments, minimum_approach_temp_diff))
           : segments \in {_get_segments(hcc, ccc, hot_streams, cold_streams)} })

\* lines 408-414 of TQDiagram.__init__: _shift_curve on the lists of the two
\* composite curves, [err, hot, cold] with the plot segments of the lists
\* returned
ShiftedCurves(hot_curve, cold_curve, minimum_approach_temp_diff, pinch_point_temp) ==
    Only({ [err |-> shifted.err,
            hot |-> IF shifted.err # "" THEN <<>>
                    ELSE DerefPieces(shifted.heap, shifted.heap[shifted.hot].items),
            cold |-> IF shifted.err # "" THEN <<>>
                     ELSE DerefPieces(shifted.heap, shifted.heap[shifted.cold].items)]
           : shifted \in
               {_shift_curve(with_cold, Len(with_hot), Len(with_cold),
                             minimum_approach_temp_diff, pinch_point_temp)
                : with_hot \in {HeapOfPieces(<<>>, hot_curve, 1)},
                  with_cold \in {HeapOfPieces(HeapOfPieces(<<>>, hot_curve, 1),
                                              cold_curve, 1)}} })

\* TQDiagram(streams, minimum_approach_temp_diff, pinch_point_temp): err and
\* the values of the constructor: the shifted curves hcc and ccc, the split
\* segments, the merged lists and the attribute heat_exchangers; the
\* attributes that hold lines repeat the plot segments of the segments
TQDiagram(streams_, minimum_approach_temp_diff, pinch_point_temp) ==
    Only({ Only({ IF hot_curve.err # "" THEN NoDiagram(hot_curve.err)
                  ELSE IF cold_curve.err # "" THEN NoDiagram(cold_curve.err)
                  ELSE Only({ IF shifted.err # "" THEN NoDiagram(shifted.err)
                              ELSE DiagramOfCurves(shifted.hot, shifted.cold, hot_streams,
                                                   cold_streams, minimum_approach_temp_diff)
                              : shifted \in
                                  {ShiftedCurves(hot_curve.curve, cold_curve.curve,
                                                 minimum_approach_temp_diff,
                                                 pinch_point_temp)} })
                  : hot_curve \in {_create_composite_curve(hot_streams)},
                    cold_curve \in {_create_composite_curve(cold_streams)} })
           : hot_streams \in
                 {Only({ SortBy(hot, [i \in 1..Len(hot) |-> output_temperature(hot[i])])
                         : hot \in {Filter(streams_, [i \in 1..Len(streams_) |->
                                                         is_hot(streams_[i])])} })},
             cold_streams \in
                 {Only({ SortBy(cold, [i \in 1..Len(cold) |-> input_temperature(cold[i])])
                         : cold \in {Filter(streams_, [i \in 1..Len(streams_) |->
                                                          is_cold(streams_[i])])} })} })

\* gcc.pinch_point_temp(), line 100 of pinch_analyzer.py: the temperature of
\* the highest or of the lowest pinch point of the curve, pinch_point naming
\* the attribute that is returned
pinch_point_temp(gcc_, pinch_point) ==
    IF pinch_point = "maximum_pinch_point_temp"
    THEN gcc_.maximum_pinch_point_temp
    ELSE gcc_.minimum_pinch_point_temp

\* the attributes of a PinchAnalyzer after line 130
AnalyzerWithDiagram(self, pinch_point_temp_, tq, heat_exchangers) ==
    [minimum_approach_temp_diff_range |-> self.minimum_approach_temp_diff_range,
     gcc |-> self.gcc,
     external_heating_demand |-> self.external_heating_demand,
     external_cooling_demand |-> self.external_cooling_demand,
     streams |-> self.streams,
     pinch_point_temp |-> pinch_point_temp_,
     tq |-> tq,
     heat_exchangers |-> heat_exchangers]

\* lines 100-130 of PinchAnalyzer.__init__, a being the analyzer and the heap
\* after line 99: [err, message, self, heap]
AnalyzerDiagram(a, minimum_approach_temp_diff, pinch_point_temp_) ==
    Only({ IF tq.err # ""
           THEN [err |-> tq.err, message |-> "", self |-> None, heap |-> a.heap]
           ELSE Only({ IF made.err # ""
                       THEN [err |-> made.err, message |-> "", self |-> None,
                             heap |-> a.heap]
                       ELSE [err |-> "", message |-> "",
                             self |-> Some(AnalyzerWithDiagram(a.self[1], pinch_point_temp_,
                                                               tq, made.heat_exchangers)),
                             heap |-> a.heap]
                       : made \in {HeatExchangersOfMerged(tq.hcc_merged, tq.ccc_merged)} })
           : tq \in {TQDiagram(DerefList(a.heap, a.self[1].streams),
                               minimum_approach_temp_diff, pinch_point_temp_)} })

\* PinchAnalyzer(streams_, minimum_approach_temp_diff, force_validation) on
\* the heap, the whole constructor: [err, message, self, heap]
PinchAnalyzer(h, lref, minimum_approach_temp_diff, force_validation, pinch_point) ==
    Only({ IF a.err # "" \/ a.self = None THEN a
           ELSE AnalyzerDiagram(a, minimum_approach_temp_diff,
                                pinch_point_temp(a.self[1].gcc[1], pinch_point))
           : a \in {PinchAnalyzerOnHeap(h, lref, minimum_approach_temp_diff,
                                        force_validation)} })

----------------------------------------------------------------------------
(* Inputs. *)

TempInputs == {R(t) : t \in 0..MaxTemp}
HeatInputs == {R(h) : h \in (-1)..MaxHeat}
CostInputs == {R(0), R(1)}
DeltaTInputs == {R(d) : d \in 1..MaxDeltaT}
IdInputs == {"", "a"}

----------------------------------------------------------------------------
(* One Stream object: its construction and its updates. *)

InitStream ==
    /\ stream = None
    /\ streams = <<>>
    /\ gcc = None
    /\ pa = None
    /\ msg = ""
    /\ err = ""
    /\ call = [op |-> "none"]
    /\ pre = None
    /\ ret = None
    /\ heap = None

\* s = Stream(...), the first call of a run; a constructor that raises leaves no
\* object
NewStream ==
    /\ call.op = "none"
    /\ \E input \in TempInputs, output \in TempInputs, heat_flow \in HeatInputs,
          type_ \in StreamType, state \in StreamState, cost \in CostInputs,
          rr \in BOOLEAN, id_ \in IdInputs :
        LET r == StreamInit(input, output, heat_flow, type_, state, cost, rr,
                            id_, "uuid-1")
        IN  /\ stream' = r.stream
            /\ err' = r.err
            /\ call' = [op |-> "Stream", input |-> input, output |-> output,
                        heat_flow |-> heat_flow, type_ |-> type_,
                        state |-> state, cost |-> cost, check |-> r.check]
            /\ pre' = None
            /\ UNCHANGED <<streams, gcc, pa, msg, ret, heap>>

UpdateTemperature ==
    /\ stream # None
    /\ \E input \in TempInputs, output \in TempInputs :
        LET r == update_temperature(stream[1], input, output)
        IN  /\ stream' = Some(r.stream)
            /\ err' = r.err
            /\ call' = [op |-> "update_temperature", input |-> input,
                        output |-> output]
            /\ pre' = stream
            /\ UNCHANGED <<streams, gcc, pa, msg, ret, heap>>

UpdateHeat ==
    /\ stream # None
    /\ \E heat_flow \in HeatInputs :
        LET r == update_heat(stream[1], heat_flow)
        IN  /\ stream' = Some(r.stream)
            /\ err' = r.err
            /\ call' = [op |-> "update_heat", heat_flow |-> heat_flow]
            /\ pre' = stream
            /\ UNCHANGED <<streams, gcc, pa, msg, ret, heap>>

ShiftTemperature ==
    /\ stream # None
    /\ \E delta \in DeltaTInputs :
        /\ RLe(RAdd(stream[1].temperature_range.finish, delta), R(MaxTemp))
        /\ stream' = Some(shift_temperature(stream[1], delta))
        /\ err' = ""
        /\ call' = [op |-> "shift_temperature", delta |-> delta]
        /\ pre' = stream
        /\ UNCHANGED <<streams, gcc, pa, msg, ret, heap>>

NextStream == NewStream \/ UpdateTemperature \/ UpdateHeat \/ ShiftTemperature

SpecStream == InitStream /\ [][NextStream]_vars

----------------------------------------------------------------------------
(* A caller's list of streams and the grand composite curve built from it. *)

ExampleDeltaT == 10

\* the streams of tests/grand_composite_curve_test.py, with the duty of the
\* third stream as given
ExampleStreams(third_duty) ==
    <<StreamInit(R(40), R(90), R(150), "AUTO", "UNKNOWN", Zero, FALSE, "", "uuid-1").stream[1],
      StreamInit(R(80), R(110), R(180), "AUTO", "UNKNOWN", Zero, FALSE, "", "uuid-2").stream[1],
      StreamInit(R(125), R(80), third_duty, "AUTO", "UNKNOWN", Zero, FALSE, "", "uuid-3").stream[1],
      StreamInit(R(100), R(60), R(160), "AUTO", "UNKNOWN", Zero, FALSE, "", "uuid-4").stream[1]>>

TestStreams == ExampleStreams(R(180))
DocStreams == ExampleStreams(R(160))

\* the temperatures, duties and minimum approach temperatures a caller's list
\* is drawn from
ListTempInputs == {R(0), R(1), R(2)}
GccHeatInputs == {R(0), R(1), R(2)}
GccDeltaTInputs == {R(0), R(1), R(2), R(ExampleDeltaT)}

\* The curve does not depend on the order of the caller's list (the
\* constructor sorts its copy and sums over sets of streams), so the lists are
\* enumerated up to order: a list is built in ascending order of this key.
TypeRank(type_) ==
    CASE type_ = "COLD" -> 0 [] type_ = "HOT" -> 1
      [] type_ = "EXTERNAL_COLD" -> 2 [] type_ = "EXTERNAL_HOT" -> 3

ListKey(s) ==
    LET k == 5
    IN  ((TypeRank(s.type_) * k + s.temperature_range.start[1]) * k
            + s.temperature_range.finish[1]) * k + s.heat_flow[1]

InitGcc ==
    /\ stream = None
    /\ streams \in {<<>>, TestStreams, DocStreams}
    /\ gcc = None
    /\ pa = None
    /\ msg = ""
    /\ err = ""
    /\ call = [op |-> "none"]
    /\ pre = None
    /\ ret = None
    /\ heap = None

\* streams.append(Stream(...)) while the caller builds its list
AppendStream ==
    /\ call.op \in {"none", "append"}
    /\ Len(streams) < MaxStreams
    /\ \E input \in ListTempInputs, output \in ListTempInputs, heat_flow \in GccHeatInputs,
          type_ \in StreamType :
        LET r == StreamInit(input, output, heat_flow, type_, "UNKNOWN", Zero, FALSE,
                            "", "uuid-" \o ToString(Len(streams) + 1))
        IN  /\ r.err = ""
            /\ streams # <<>> => ListKey(streams[Len(streams)]) <= ListKey(r.stream[1])
            /\ streams' = Append(streams, r.stream[1])
            /\ call' = [op |-> "append"]
            /\ UNCHANGED <<stream, gcc, pa, msg, err, pre, ret, heap>>

\* gcc = GrandCompositeCurve(streams, minimum_approach_temp_diff)
BuildGcc ==
    /\ call.op # "GrandCompositeCurve"
    /\ \E dt \in GccDeltaTInputs :
        LET r == GrandCompositeCurveInit(streams, dt)
        IN  /\ gcc' = r.gcc
            /\ err' = r.err
            /\ call' = [op |-> "GrandCompositeCurve", minimum_approach_temp_diff |-> dt]
            /\ UNCHANGED <<stream, streams, pa, msg, pre, ret, heap>>

NextGcc == AppendStream \/ BuildGcc

SpecGcc == InitGcc /\ [][NextGcc]_vars

----------------------------------------------------------------------------
(* A caller's list of streams, validate_streams and the PinchAnalyzer built
   from the list. *)

AnalyzerDeltaTInputs == {R(-1), R(0), R(1)}

InitAnalyzer ==
    /\ stream = None
    /\ streams = <<>>
    /\ gcc = None
    /\ pa = None
    /\ msg = [message |-> "", args |-> <<>>]
    /\ err = ""
    /\ call = [op |-> "none"]
    /\ pre = None
    /\ ret = None
    /\ heap = None

\* streams.append(Stream(..., id_=...)): a stream is given the identifier "a"
\* or none, and then has one of its own.  Only the check for duplicates reads
\* the identifiers and only the range of minimum approach temperatures and the
\* curve read the duties, so the identifier "a" and the duty 2 are given to
\* internal streams that are not isothermal, and "a" with the duty 1 only.
AppendStreamWithId ==
    /\ call.op \in {"none", "append"}
    /\ Len(streams) < MaxStreams
    /\ \E input \in ListTempInputs, output \in ListTempInputs, heat_flow \in GccHeatInputs,
          type_ \in StreamType, id_ \in IdInputs :
        LET r == StreamInit(input, output, heat_flow, type_, "UNKNOWN", Zero, FALSE,
                            id_, "uuid-" \o ToString(Len(streams) + 1))
        IN  /\ r.err = ""
            /\ heat_flow = R(2) => input # output
            /\ id_ = "a" => (input # output /\ heat_flow = R(1))
            /\ streams # <<>> => ListKey(streams[Len(streams)]) <= ListKey(r.stream[1])
            /\ streams' = Append(streams, r.stream[1])
            /\ call' = [op |-> "append"]
            /\ UNCHANGED <<stream, gcc, pa, msg, err, pre, ret, heap>>

\* message = PinchAnalyzer.validate_streams(streams, ignore_validation)
ValidateStreams ==
    /\ call.op \in {"none", "append"}
    /\ \E ignore_validation \in BOOLEAN :
        /\ msg' = validate_streams(streams, ignore_validation)
        /\ call' = [op |-> "validate_streams", ignore_validation |-> ignore_validation]
        /\ UNCHANGED <<stream, streams, gcc, pa, err, pre, ret, heap>>

\* PinchAnalyzer(streams, minimum_approach_temp_diff, force_validation): pa is
\* self with the attributes assigned so far; when err is not "" the
\* constructor raised and the caller has no analyzer
NewPinchAnalyzer ==
    /\ call.op \in {"none", "append"}
    /\ \E dt \in AnalyzerDeltaTInputs, force_validation \in BOOLEAN :
        LET r == PinchAnalyzerInit(streams, dt, force_validation)
        IN  /\ pa' = Some(r.self)
            /\ err' = r.err
            /\ msg' = [message |-> r.message, args |-> <<>>]
            /\ call' = [op |-> "PinchAnalyzer", minimum_approach_temp_diff |-> dt,
                        force_validation |-> force_validation]
            /\ UNCHANGED <<stream, streams, gcc, pre, ret, heap>>

NextAnalyzer == AppendStreamWithId \/ ValidateStreams \/ NewPinchAnalyzer

SpecAnalyzer == InitAnalyzer /\ [][NextAnalyzer]_vars

----------------------------------------------------------------------------
(* A caller's list of internal streams and the largest minimum approach
   temperature computed from it. *)

TempDiffTempInputs == {R(n) : n \in 0..MaxTemp}
TempDiffHeatInputs == {R(n) : n \in 1..MaxHeat}

\* the caller has an empty list or the list of tests/tq_diagram_test.py
InitTempDiff ==
    /\ stream = None
    /\ streams \in {<<>>, DocStreams}
    /\ gcc = None
    /\ pa = None
    /\ msg = ""
    /\ err = ""
    /\ call = [op |-> "none"]
    /\ pre = None
    /\ ret = None
    /\ heap = None

\* streams.append(Stream(...)) with a hot or a cold stream
AppendInternalStream ==
    /\ call.op \in {"none", "append"}
    /\ Len(streams) < MaxLen
    /\ \E input \in TempDiffTempInputs, output \in TempDiffTempInputs,
          heat_flow \in TempDiffHeatInputs, type_ \in {"HOT", "COLD"} :
        \E r \in {StreamInit(input, output, heat_flow, type_, "UNKNOWN", Zero, FALSE,
                              "", "uuid-" \o ToString(Len(streams) + 1))} :
            /\ r.err = ""
            /\ streams # <<>> => ListKey(streams[Len(streams)]) <= ListKey(r.stream[1])
            /\ streams' = Append(streams, r.stream[1])
    /\ call' = [op |-> "append"]
    /\ UNCHANGED <<stream, gcc, pa, msg, err, pre, ret, heap>>

\* upper = get_possible_minimum_temp_diff(streams)
GetPossibleMinimumTempDiff ==
    /\ call.op \in {"none", "append"}
    /\ \E upper \in {get_possible_minimum_temp_diff(streams)} :
        /\ err' = upper.err
        /\ ret' = IF upper.err = "" THEN Some(upper.value) ELSE None
    /\ call' = [op |-> "get_possible_minimum_temp_diff"]
    /\ UNCHANGED <<stream, streams, gcc, pa, msg, pre, heap>>

\* range = get_possible_minimum_temp_diff_range(streams, ignore_validation)
GetPossibleMinimumTempDiffRange ==
    /\ call.op \in {"none", "append"}
    /\ \E ignore_validation \in BOOLEAN :
        \E r \in {get_possible_minimum_temp_diff_range(streams, ignore_validation)} :
            /\ err' = r.err
            /\ ret' = IF r.err = "" THEN Some(r.range) ELSE None
    /\ call' = [op |-> "get_possible_minimum_temp_diff_range"]
    /\ UNCHANGED <<stream, streams, gcc, pa, msg, pre, heap>>

NextTempDiff ==
    \/ AppendInternalStream
    \/ GetPossibleMinimumTempDiff
    \/ GetPossibleMinimumTempDiffRange

SpecTempDiff == InitTempDiff /\ [][NextTempDiff]_vars

----------------------------------------------------------------------------
(* The functions on ranges and on lists of ranges, applied to the lists of
   breakpoints and of ranges a caller can pass. *)

\* lists of at most MaxLen breakpoints
ValueLists == UNION {[1..n -> TempInputs] : n \in 0..MaxLen}

\* the ranges a caller can construct, arguments in either order
RangeInputs == {BaseRange(a, b) : a \in TempInputs, b \in TempInputs}

\* lists of ranges in any order, continuous or not
RangeLists == UNION {[1..n -> RangeInputs] : n \in 0..(MaxLen - 1)}

\* the lists of ranges made from breakpoints
ContinuousRangeLists == {get_heat_ranges(values) : values \in ValueLists}

InitRange ==
    /\ stream = None
    /\ streams = <<>>
    /\ gcc = None
    /\ pa = None
    /\ msg = ""
    /\ err = ""
    /\ call = [op |-> "none"]
    /\ pre = None
    /\ ret = None
    /\ heap = None

\* ranges = get_ranges(values, cls), the first call of a run
GetRanges ==
    /\ call.op = "none"
    /\ \E values \in ValueLists :
        /\ call' = [op |-> "get_ranges", values |-> values]
        /\ ret' = Some(get_ranges(values))
        /\ err' = ""
    /\ UNCHANGED <<stream, streams, gcc, pa, msg, pre, heap>>

\* heat_ranges = get_heat_ranges(heats), the first call of a run
GetHeatRanges ==
    /\ call.op = "none"
    /\ \E heats \in ValueLists :
        /\ call' = [op |-> "get_heat_ranges", values |-> heats]
        /\ ret' = Some(get_heat_ranges(heats))
        /\ err' = ""
    /\ UNCHANGED <<stream, streams, gcc, pa, msg, pre, heap>>

\* flatten(ranges) of the ranges get_ranges has just returned (from records
\* the breakpoints they were made of), or of a list of ranges of the caller
Flatten ==
    /\ call.op \in {"none", "get_ranges"}
    /\ \E ranges \in IF call.op = "none" THEN RangeLists ELSE {ret[1]} :
        /\ call' = [op |-> "flatten", ranges |-> ranges,
                    from |-> IF call.op = "none" THEN None ELSE Some(call.values)]
        /\ \E r \in {flatten(ranges)} :
              /\ err' = r.err
              /\ ret' = IF r.err = "" THEN Some(r.values) ELSE None
    /\ UNCHANGED <<stream, streams, gcc, pa, msg, pre, heap>>

\* get_heats(heat_ranges) of the ranges get_heat_ranges has just returned, or
\* of a list of ranges of the caller
GetHeats ==
    /\ call.op \in {"none", "get_heat_ranges"}
    /\ \E heat_ranges \in IF call.op = "none" THEN RangeLists ELSE {ret[1]} :
        /\ call' = [op |-> "get_heats", ranges |-> heat_ranges,
                    from |-> IF call.op = "none" THEN None ELSE Some(call.values)]
        /\ \E r \in {get_heats(heat_ranges)} :
              /\ err' = r.err
              /\ ret' = IF r.err = "" THEN Some(r.heats) ELSE None
    /\ UNCHANGED <<stream, streams, gcc, pa, msg, pre, heap>>

\* merge(range_, other)
Merge ==
    /\ call.op = "none"
    /\ \E range_ \in RangeInputs, other \in RangeInputs :
        /\ call' = [op |-> "merge", range_ |-> range_, other |-> other]
        /\ \E r \in {merge(range_, other)} :
              /\ err' = r.err
              /\ ret' = r.range
    /\ UNCHANGED <<stream, streams, gcc, pa, msg, pre, heap>>

\* range_.merge(other) of HeatRange
HeatRangeMerge ==
    /\ call.op = "none"
    /\ \E range_ \in RangeInputs, other \in RangeInputs :
        /\ call' = [op |-> "HeatRange.merge", range_ |-> range_, other |-> other]
        /\ \E r \in {HeatRange_merge(range_, other)} :
              /\ err' = r.err
              /\ ret' = r.range
    /\ UNCHANGED <<stream, streams, gcc, pa, msg, pre, heap>>

\* get_merged_heat_ranges(heat_ranges_list) of one or two lists: a list of the
\* caller and a list made by get_heat_ranges, in either order
GetMergedHeatRanges ==
    /\ call.op = "none"
    /\ \E any \in RangeLists, made \in ContinuousRangeLists :
       \E heat_ranges_list \in {<<any>>, <<any, made>>, <<made, any>>} :
        /\ call' = [op |-> "get_merged_heat_ranges",
                    heat_ranges_list |-> heat_ranges_list]
        /\ \E r \in {get_merged_heat_ranges(heat_ranges_list)} :
              /\ err' = r.err
              /\ ret' = IF r.err = "" THEN Some(r.heat_ranges) ELSE None
    /\ UNCHANGED <<stream, streams, gcc, pa, msg, pre, heap>>

NextRange ==
    \/ GetRanges
    \/ GetHeatRanges
    \/ Flatten
    \/ GetHeats
    \/ Merge
    \/ HeatRangeMerge
    \/ GetMergedHeatRanges

SpecRange == InitRange /\ [][NextRange]_vars

----------------------------------------------------------------------------
(* A list of hot streams or of cold streams and its composite curve. *)

\* the temperatures and duties the streams of a curve are drawn from
CurveTempInputs == {R(0), R(1), R(2)}
CurveHeatInputs == {R(-1), R(0), R(1), R(2)}

InitCurve ==
    /\ stream = None
    /\ streams = <<>>
    /\ gcc = None
    /\ pa = None
    /\ msg = ""
    /\ err = ""
    /\ call = [op |-> "none"]
    /\ pre = None
    /\ ret = None
    /\ heap = None

\* streams.append(Stream(...)) of a stream of the role of the list; the curve
\* does not depend on the order of the list, which is built in the order of
\* ListKey
AppendSameRole ==
    /\ call.op \in {"none", "append"}
    /\ Len(streams) < MaxStreams
    /\ \E input \in CurveTempInputs, output \in CurveTempInputs,
          heat_flow \in CurveHeatInputs, type_ \in StreamType :
        \E r \in {StreamInit(input, output, heat_flow, type_, "UNKNOWN", Zero, FALSE,
                              "", "uuid-" \o ToString(Len(streams) + 1))} :
            /\ r.err = ""
            /\ streams # <<>> =>
                  /\ is_hot(streams[1]) = is_hot(r.stream[1])
                  /\ ListKey(streams[Len(streams)]) <= ListKey(r.stream[1])
            /\ streams' = Append(streams, r.stream[1])
            /\ call' = [op |-> "append"]
    /\ UNCHANGED <<stream, gcc, pa, msg, err, pre, ret, heap>>

\* curve = _create_composite_curve(streams)
CreateCompositeCurve ==
    /\ call.op \in {"none", "append"}
    /\ \E r \in {_create_composite_curve(streams)} :
        /\ err' = r.err
        /\ ret' = IF r.err = "" THEN Some(r.curve) ELSE None
    /\ call' = [op |-> "_create_composite_curve"]
    /\ UNCHANGED <<stream, streams, gcc, pa, msg, pre, heap>>

NextCurve == AppendSameRole \/ CreateCompositeCurve

SpecCurve == InitCurve /\ [][NextCurve]_vars

----------------------------------------------------------------------------
(* A caller's list of streams on the heap, and the curve and the analyzer
   built from it. *)

\* the temperatures, duties and minimum approach temperatures of the caller
FrameTempInputs == {R(0), R(1), R(2)}
FrameHeatInputs == {R(0), R(1)}
FrameDeltaTInputs == {R(0), R(1)}

\* a cold stream, a hot stream with half its duty, and steam for the rest
FrameExample ==
    <<StreamInit(R(0), R(2), R(2), "AUTO", "UNKNOWN", Zero, FALSE, "", "uuid-1").stream[1],
      StreamInit(R(2), R(1), R(1), "AUTO", "UNKNOWN", Zero, FALSE, "", "uuid-2").stream[1],
      StreamInit(R(2), R(2), R(0), "EXTERNAL_HOT", "UNKNOWN", Zero, FALSE, "",
                 "uuid-3").stream[1]>>

\* the heap of a caller that has made the streams ss and a list of them: the
\* list is the first object
RECURSIVE HeapOfList(_, _)
HeapOfList(ss, n) ==
    IF n = 0 THEN <<[items |-> <<>>]>>
    ELSE Only({ [Allocate(h, ss[n]) EXCEPT ![1].items = Append(@, Len(h) + 2)]
                : h \in {HeapOfList(ss, n - 1)} })

\* the caller has an empty list, or the list of the example
InitFrame ==
    /\ stream = None
    /\ streams \in {<<>>, FrameExample}
    /\ gcc = None
    /\ pa = None
    /\ msg = ""
    /\ err = ""
    /\ call = [op |-> "none"]
    /\ heap = HeapOfList(streams, Len(streams))
    /\ pre = heap
    /\ ret = None

\* streams.append(Stream(...)) by the caller; pre is the heap and streams the
\* list as the caller leaves them
CallerAppend ==
    /\ call.op \in {"none", "append"}
    /\ Len(streams) < MaxStreams
    /\ \E input \in FrameTempInputs, output \in FrameTempInputs,
          heat_flow \in FrameHeatInputs, type_ \in StreamType :
        \E r \in {StreamInit(input, output, heat_flow, type_, "UNKNOWN", Zero, FALSE,
                              "", "uuid-" \o ToString(Len(streams) + 1))} :
            /\ r.err = ""
            /\ streams # <<>> => ListKey(streams[Len(streams)]) <= ListKey(r.stream[1])
            /\ streams' = Append(streams, r.stream[1])
            /\ heap' = HeapOfList(streams', Len(streams'))
            /\ pre' = heap'
    /\ call' = [op |-> "append"]
    /\ UNCHANGED <<stream, gcc, pa, msg, err, ret>>

\* gcc = GrandCompositeCurve(streams, minimum_approach_temp_diff)
NewGrandCompositeCurve ==
    /\ call.op \in {"none", "append"}
    /\ \E dt \in FrameDeltaTInputs :
        \E g \in {GrandCompositeCurveOnHeap(heap, 1, dt)} :
            /\ gcc' = g.gcc
            /\ err' = g.err
            /\ heap' = g.heap
            /\ call' = [op |-> "GrandCompositeCurve", minimum_approach_temp_diff |-> dt]
    /\ UNCHANGED <<stream, streams, pa, msg, pre, ret>>

\* pa = PinchAnalyzer(streams, minimum_approach_temp_diff, force_validation);
\* gcc is pa.gcc
NewPinchAnalyzerOnHeap ==
    /\ call.op \in {"none", "append"}
    /\ \E dt \in FrameDeltaTInputs, force_validation \in BOOLEAN :
        \E a \in {PinchAnalyzerOnHeap(heap, 1, dt, force_validation)} :
            /\ pa' = a.self
            /\ gcc' = IF a.self = None THEN None ELSE a.self[1].gcc
            /\ err' = a.err
            /\ msg' = a.message
            /\ heap' = a.heap
            /\ call' = [op |-> "PinchAnalyzer", minimum_approach_temp_diff |-> dt,
                        force_validation |-> force_validation]
    /\ UNCHANGED <<stream, streams, pre, ret>>

\* gcc.solve_external_heat(), any number of times
SolveExternalHeat ==
    /\ gcc # None
    /\ \E s \in {solve_external_heat(heap, gcc[1])} :
        /\ heap' = s.heap
        /\ ret' = Some(s.id_heats)
    /\ err' = ""
    /\ call' = [op |-> "solve_external_heat"]
    /\ UNCHANGED <<stream, streams, gcc, pa, msg, pre>>

NextFrame ==
    \/ CallerAppend
    \/ NewGrandCompositeCurve
    \/ NewPinchAnalyzerOnHeap
    \/ SolveExternalHeat

SpecFrame == InitFrame /\ [][NextFrame]_vars

----------------------------------------------------------------------------
(* A curve built from a list with up to MaxStreams external streams, and
   solve_external_heat called on it up to MaxCalls times.  ret is the mapping
   the last call returned and pre the mapping of the call before it. *)

MaxCalls == 2

SolveTempInputs == {R(n) : n \in 0..MaxTemp}
SolveDeltaTInputs == {R(n) : n \in 0..(MaxDeltaT - 1)}

\* the internal streams of the caller: [input, output, heat_flow, type_]
SolveInternals ==
    {<<<<R(0), R(2), R(2), "COLD">>>>,
     <<<<R(0), R(2), R(2), "COLD">>, <<R(2), R(1), R(1), "HOT">>>>,
     <<<<R(2), R(0), R(2), "HOT">>>>,
     <<<<R(2), R(0), R(2), "HOT">>, <<R(1), R(2), R(1), "COLD">>>>}

\* the external streams a caller can construct: no duty, a hot one not
\* warmer at its outlet and a cold one not colder
SolveExternals ==
    {<<p[1], p[2], Zero, "EXTERNAL_HOT">> :
        p \in {q \in SolveTempInputs \X SolveTempInputs : RLe(q[2], q[1])}}
    \cup {<<p[1], p[2], Zero, "EXTERNAL_COLD">> :
            p \in {q \in SolveTempInputs \X SolveTempInputs : RLe(q[1], q[2])}}

SolveExternalLists ==
    UNION {[1..n -> SolveExternals] : n \in 0..MaxStreams}

\* the Stream objects of the arguments, with the ids uuid-1, uuid-2, ...
SolveStreams(inputs) ==
    [i \in 1..Len(inputs) |->
        StreamInit(inputs[i][1], inputs[i][2], inputs[i][3], inputs[i][4], "UNKNOWN",
                   Zero, FALSE, "", "uuid-" \o ToString(i)).stream[1]]

InitSolve ==
    /\ stream = None
    /\ streams \in {SolveStreams(internal \o external) :
                       internal \in SolveInternals, external \in SolveExternalLists}
    /\ gcc = None
    /\ pa = None
    /\ msg = ""
    /\ err = ""
    /\ call = [op |-> "none", calls |-> 0]
    /\ heap = HeapOfList(streams, Len(streams))
    /\ pre = None
    /\ ret = None

\* gcc = GrandCompositeCurve(streams, minimum_approach_temp_diff)
NewCurveToSolve ==
    /\ call.op = "none"
    /\ \E dt \in SolveDeltaTInputs :
        \E g \in {GrandCompositeCurveOnHeap(heap, 1, dt)} :
            /\ gcc' = g.gcc
            /\ err' = g.err
            /\ heap' = g.heap
    /\ call' = [op |-> "GrandCompositeCurve", calls |-> 0]
    /\ UNCHANGED <<stream, streams, pa, msg, pre, ret>>

\* gcc.solve_external_heat(), the first call or a later one
SolveAgain ==
    /\ gcc # None
    /\ call.calls < MaxCalls
    /\ \E s \in {solve_external_heat(heap, gcc[1])} :
        /\ heap' = s.heap
        /\ ret' = Some(s.id_heats)
    /\ pre' = ret
    /\ err' = ""
    /\ call' = [op |-> "solve_external_heat", calls |-> call.calls + 1]
    /\ UNCHANGED <<stream, streams, gcc, pa, msg>>

NextSolve == NewCurveToSolve \/ SolveAgain

SpecSolve == InitSolve /\ [][NextSolve]_vars

----------------------------------------------------------------------------
(* Two lists of plot segments of a caller and _shift_curve applied to them.
   heap holds the objects of the two lists, the hot list first; pre is the
   heap as the caller left it. *)

ShiftStartInputs == {R(0), R(1)}
ShiftWidthInputs == {R(0), R(1)}
ShiftSpanInputs == {R(0), R(1), R(2)}
ShiftDeltaTInputs == {R(0), R(1)}
ShiftPinchInputs == {R(1), R(2), R(3)}

\* a curve of one or two segments from the heat 0 on: the widths of the heat
\* ranges and of the temperature ranges of its segments
CurveFrom(start_temperature, widths, spans) ==
    IF Len(widths) = 1
    THEN <<PlotSegment(Zero, widths[1], start_temperature,
                       RAdd(start_temperature, spans[1]), "u", "UNKNOWN", FALSE)>>
    ELSE <<PlotSegment(Zero, widths[1], start_temperature,
                       RAdd(start_temperature, spans[1]), "u", "UNKNOWN", FALSE),
           PlotSegment(widths[1], RAdd(widths[1], widths[2]),
                       RAdd(start_temperature, spans[1]),
                       RAdd(start_temperature, RAdd(spans[1], spans[2])),
                       "u", "UNKNOWN", FALSE)>>

\* the curves of one segment and of two segments
ContinuousCurves ==
    {CurveFrom(t, <<w>>, <<s>>)
        : t \in ShiftStartInputs, w \in ShiftWidthInputs, s \in ShiftSpanInputs}
    \cup {CurveFrom(t, <<w1, w2>>, <<s1, s2>>)
            : t \in {R(1)}, w1 \in ShiftWidthInputs, w2 \in ShiftWidthInputs,
              s1 \in ShiftSpanInputs, s2 \in ShiftSpanInputs}

\* a list as the caller may hold it: a curve, a curve with its segments the
\* other way round, or a curve with a hole before its last segment
PlotSegmentLists ==
    ContinuousCurves
    \cup {<<c[2], c[1]>> : c \in {d \in ContinuousCurves : Len(d) = 2}}
    \cup {<<c[1], shift_heat(c[2], R(1))>> : c \in {d \in ContinuousCurves : Len(d) = 2}}

\* hot curves of one segment over three degrees, and the cold lists within
\* the heats 0 and 1
SteepHotCurves ==
    {CurveFrom(R(0), <<R(1)>>, <<R(3)>>),
     CurveFrom(R(1), <<R(1)>>, <<R(3)>>)}

LowColdLists ==
    {c \in PlotSegmentLists : \A i \in 1..Len(c) : RLe(c[i].heat_range.finish, R(1))}

InitShift ==
    /\ stream = None
    /\ streams = <<>>
    /\ gcc = None
    /\ pa = None
    /\ msg = ""
    /\ err = ""
    /\ call = [op |-> "none"]
    /\ \/ \E hot \in PlotSegmentLists, cold \in PlotSegmentLists :
              heap = HeapOfPieces(HeapOfPieces(<<>>, hot, 1), cold, 1)
       \/ \E hot \in SteepHotCurves, cold \in LowColdLists :
              heap = HeapOfPieces(HeapOfPieces(<<>>, hot, 1), cold, 1)
    /\ pre = heap
    /\ ret = None

\* the references of the caller's two lists: the hot list is the first list
\* object of the heap, the cold list the last object
HotListOf(h) == CHOOSE r \in 1..Len(h) : "items" \in DOMAIN h[r] /\ \A q \in 1..(r - 1) : "items" \notin DOMAIN h[q]
ColdListOf(h) == Len(h)

\* hot, cold = _shift_curve(hot_plot_segments_, cold_plot_segments_,
\* minimum_approach_temp_diff, pinch_point_temp)
ShiftCurve ==
    /\ call.op = "none"
    /\ \E dt \in ShiftDeltaTInputs, pinch \in ShiftPinchInputs :
        \E r \in {_shift_curve(heap, HotListOf(heap), ColdListOf(heap), dt, pinch)} :
            /\ err' = r.err
            /\ heap' = r.heap
            /\ ret' = IF r.err = "" THEN Some([hot |-> r.hot, cold |-> r.cold]) ELSE None
            /\ call' = [op |-> "_shift_curve", hot_ |-> HotListOf(heap),
                        cold_ |-> ColdListOf(heap),
                        minimum_approach_temp_diff |-> dt, pinch_point_temp |-> pinch]
    /\ UNCHANGED <<stream, streams, gcc, pa, msg, pre>>

NextShift ==
    \/ ShiftCurve

SpecShift == InitShift /\ [][NextShift]_vars

----------------------------------------------------------------------------
(* One Segment: its construction from the hot and the cold streams of a heat
   range, and split.  ret is the Segment object. *)

SplitTempInputs == {R(n) : n \in 0..MaxTemp}
SplitDutyInputs == {R(n) : n \in 1..(MaxHeat + 1)}
SplitDeltaTInputs == {R(n) : n \in 0..MaxDeltaT}

\* the lists of the duties of one to MaxStreams + 1 streams
DutyLists == UNION {[1..n -> SplitDutyInputs] : n \in 1..(MaxStreams + 1)}

\* the streams of one side of a Segment: they have the temperatures of the
\* Segment and the duties given
SideStreams(type_, temperatures, duties) ==
    [i \in 1..Len(duties) |->
        StreamInit(IF type_ = "HOT" THEN temperatures[2] ELSE temperatures[1],
                   IF type_ = "HOT" THEN temperatures[1] ELSE temperatures[2],
                   duties[i], type_, "UNKNOWN", Zero, FALSE,
                   (IF type_ = "HOT" THEN "hot-" ELSE "cold-") \o ToString(i),
                   "uuid").stream[1]]

\* the pairs <<start, finish>> of temperatures
TemperaturePairs ==
    {p \in SplitTempInputs \X SplitTempInputs : RLe(p[1], p[2])}

InitSplit ==
    /\ stream = None
    /\ streams = <<>>
    /\ gcc = None
    /\ pa = None
    /\ msg = ""
    /\ err = ""
    /\ call = [op |-> "none"]
    /\ heap = <<>>
    /\ pre = <<>>
    /\ ret = None

\* segment = Segment(heats, hot_temperatures, cold_temperatures, hot_streams,
\* cold_streams) with streams of both sides that carry the same heat
NewSegment ==
    /\ call.op = "none"
    /\ \E hot_temperatures \in TemperaturePairs, cold_temperatures \in TemperaturePairs :
        \E hot_duties \in DutyLists :
            \E cold_duties \in {d \in DutyLists : RSum(d) = RSum(hot_duties)} :
                \E s \in {Segment(<<Zero, RSum(hot_duties)>>, Some(hot_temperatures),
                                  Some(cold_temperatures),
                                  SideStreams("HOT", hot_temperatures, hot_duties),
                                  SideStreams("COLD", cold_temperatures, cold_duties))} :
                    /\ err' = s.err
                    /\ ret' = s.self
                    /\ call' = [op |-> "Segment"]
    /\ UNCHANGED <<stream, streams, gcc, pa, msg, pre, heap>>

\* segment = Segment(heats, None, cold_temperatures, [], cold_streams) or
\* Segment(heats, hot_temperatures, None, hot_streams, []): a heat range that
\* one of the two curves does not reach
NewOneSidedSegment ==
    /\ call.op = "none"
    /\ \E temperatures \in TemperaturePairs, duties \in DutyLists, type_ \in {"HOT", "COLD"} :
        \E s \in {IF type_ = "HOT"
                  THEN Segment(<<Zero, RSum(duties)>>, Some(temperatures), None,
                               SideStreams("HOT", temperatures, duties), <<>>)
                  ELSE Segment(<<Zero, RSum(duties)>>, None, Some(temperatures),
                               <<>>, SideStreams("COLD", temperatures, duties))} :
            /\ err' = s.err
            /\ ret' = s.self
            /\ call' = [op |-> "Segment"]
    /\ UNCHANGED <<stream, streams, gcc, pa, msg, pre, heap>>

\* segment = Segment((0, 1), (t, t), cold_temperatures, hot_streams,
\* cold_streams) with two isothermal hot streams that have one third and two
\* thirds of the heat, in either order, and one cold stream
NewSegmentOfThirds ==
    /\ call.op = "none"
    /\ \E t \in SplitTempInputs, cold_temperatures \in TemperaturePairs,
          hot_duties \in {<<Rat(1, 3), Rat(2, 3)>>, <<Rat(2, 3), Rat(1, 3)>>} :
        \E s \in {Segment(<<Zero, R(1)>>, Some(<<t, t>>), Some(cold_temperatures),
                          SideStreams("HOT", <<t, t>>, hot_duties),
                          SideStreams("COLD", cold_temperatures, <<R(1)>>))} :
            /\ err' = s.err
            /\ ret' = s.self
            /\ call' = [op |-> "Segment"]
    /\ UNCHANGED <<stream, streams, gcc, pa, msg, pre, heap>>

\* segment.split(minimum_approach_temp_diff)
Split ==
    /\ call.op = "Segment"
    /\ ret # None
    /\ \E minimum_approach_temp_diff \in SplitDeltaTInputs :
        /\ ret' = Some(split(ret[1], minimum_approach_temp_diff))
        /\ call' = [op |-> "split", minimum_approach_temp_diff |-> minimum_approach_temp_diff]
    /\ UNCHANGED <<stream, streams, gcc, pa, msg, err, pre, heap>>

NextSplit ==
    \/ NewSegmentOfThirds
    \/ NewSegment
    \/ NewOneSidedSegment
    \/ Split

SpecSplit == InitSplit /\ [][NextSplit]_vars

----------------------------------------------------------------------------
(* A caller's list of streams and the whole analysis of it: the PinchAnalyzer
   with its TQDiagram and its heat exchangers.  The streams that are not
   isothermal have a duty of one per degree, so that the heats and the
   temperatures of the curves are binary fractions. *)

DiagramTempInputs == {R(n) : n \in 0..MaxTemp}
DiagramDutyInputs == {R(n) : n \in 1..(MaxHeat - 1)}
DiagramDeltaTInputs == {R(n) : n \in 0..(MaxDeltaT - 1)}

\* the temperatures <<input, output>> and the duty of an internal stream; an
\* isothermal hot stream is above the lowest temperature and an isothermal
\* cold stream below the highest
InternalInputs(type_) ==
    {<<p[1], p[2], TemperatureRange(p[1], p[2]).delta>>
     : p \in {q \in DiagramTempInputs \X DiagramTempInputs :
                  IF type_ = "HOT" THEN RLt(q[2], q[1]) ELSE RLt(q[1], q[2])}}
    \cup {<<t, t, duty>>
          : t \in {u \in DiagramTempInputs :
                       IF type_ = "HOT" THEN u # Zero ELSE u # R(MaxTemp)},
            duty \in DiagramDutyInputs}

\* one internal stream or two different ones, in one order
InternalLists(type_) ==
    {<<a>> : a \in InternalInputs(type_)}
    \cup {<<p[1], p[2]>> : p \in {q \in InternalInputs(type_) \X InternalInputs(type_) :
                                      \/ RLt(q[1][1], q[2][1])
                                      \/ q[1][1] = q[2][1] /\ RLt(q[1][2], q[2][2])
                                      \/ q[1][1] = q[2][1] /\ q[1][2] = q[2][2]
                                             /\ RLt(q[1][3], q[2][3])}}

\* no utility, or one isothermal utility at the temperature t
ExternalLists(t) == {<<>>, <<<<t, t, Zero>>>>}

\* the streams made of the inputs of a list, their ids being prefix-1, ...
StreamsOfInputs(inputs, type_, prefix) ==
    [i \in 1..Len(inputs) |->
        StreamInit(inputs[i][1], inputs[i][2], inputs[i][3], type_, "UNKNOWN", Zero,
                   FALSE, prefix \o "-" \o ToString(i), "uuid").stream[1]]

\* the lists of streams of the caller: hot and cold streams and utilities
DiagramLists ==
    {StreamsOfInputs(hot, "HOT", "hot") \o StreamsOfInputs(cold, "COLD", "cold")
         \o StreamsOfInputs(heating, "EXTERNAL_HOT", "heating")
         \o StreamsOfInputs(cooling, "EXTERNAL_COLD", "cooling")
     : hot \in InternalLists("HOT"), cold \in InternalLists("COLD"),
       heating \in ExternalLists(R(MaxTemp)), cooling \in ExternalLists(Zero)}

InitDiagram ==
    /\ stream = None
    /\ streams \in DiagramLists
    /\ gcc = None
    /\ pa = None
    /\ msg = ""
    /\ err = ""
    /\ call = [op |-> "none"]
    /\ heap = HeapOfList(streams, Len(streams))
    /\ pre = heap
    /\ ret = None

\* pa = PinchAnalyzer(streams, minimum_approach_temp_diff, force_validation)
NewPinchAnalyzerWithDiagram ==
    /\ call.op = "none"
    /\ \E dt \in DiagramDeltaTInputs, force_validation \in BOOLEAN,
          pinch_point \in {"maximum_pinch_point_temp", "minimum_pinch_point_temp"} :
        \E a \in {PinchAnalyzer(heap, 1, dt, force_validation, pinch_point)} :
            /\ pa' = a.self
            /\ gcc' = IF a.self = None THEN None ELSE a.self[1].gcc
            /\ err' = a.err
            /\ msg' = a.message
            /\ heap' = a.heap
            /\ call' = [op |-> "PinchAnalyzer", minimum_approach_temp_diff |-> dt,
                        force_validation |-> force_validation]
    /\ UNCHANGED <<stream, streams, pre, ret>>

NextDiagram == NewPinchAnalyzerWithDiagram

SpecDiagram == InitDiagram /\ [][NextDiagram]_vars

----------------------------------------------------------------------------
(* The composite curves of an analysis after _shift_curve, lines 394-414 of
   TQDiagram.__init__: ret holds the two shifted curves. *)

\* lines 394-414 of TQDiagram.__init__: [err, hot, cold]
TQDiagramCurves(streams_, minimum_approach_temp_diff, pinch_point_temp_) ==
    Only({ Only({ IF hot_curve.err # "" THEN [err |-> hot_curve.err, hot |-> <<>>, cold |-> <<>>]
                  ELSE IF cold_curve.err # ""
                  THEN [err |-> cold_curve.err, hot |-> <<>>, cold |-> <<>>]
                  ELSE ShiftedCurves(hot_curve.curve, cold_curve.curve,
                                     minimum_approach_temp_diff, pinch_point_temp_)
                  : hot_curve \in {_create_composite_curve(hot_streams)},
                    cold_curve \in {_create_composite_curve(cold_streams)} })
           : hot_streams \in
                 {Only({ SortBy(hot, [i \in 1..Len(hot) |-> output_temperature(hot[i])])
                         : hot \in {Filter(streams_, [i \in 1..Len(streams_) |->
                                                         is_hot(streams_[i])])} })},
             cold_streams \in
                 {Only({ SortBy(cold, [i \in 1..Len(cold) |-> input_temperature(cold[i])])
                         : cold \in {Filter(streams_, [i \in 1..Len(streams_) |->
                                                          is_cold(streams_[i])])} })} })

\* PinchAnalyzer(streams, minimum_approach_temp_diff, force_validation) up to
\* the return of _shift_curve in TQDiagram.__init__
ShiftCurvesOfAnalysis ==
    /\ call.op = "none"
    /\ \E dt \in DiagramDeltaTInputs, force_validation \in BOOLEAN,
          pinch_point \in {"maximum_pinch_point_temp", "minimum_pinch_point_temp"} :
        \E a \in {PinchAnalyzerOnHeap(heap, 1, dt, force_validation)} :
            /\ pa' = a.self
            /\ gcc' = IF a.self = None THEN None ELSE a.self[1].gcc
            /\ msg' = a.message
            /\ heap' = a.heap
            /\ IF a.err # "" \/ a.self = None
               THEN /\ err' = a.err
                    /\ ret' = None
                    /\ call' = [op |-> "PinchAnalyzer", minimum_approach_temp_diff |-> dt]
               ELSE \E shifted \in
                        {TQDiagramCurves(DerefList(a.heap, a.self[1].streams), dt,
                                         pinch_point_temp(a.self[1].gcc[1], pinch_point))} :
                        /\ err' = shifted.err
                        /\ ret' = IF shifted.err # "" THEN None
                                  ELSE Some([hcc |-> shifted.hot, ccc |-> shifted.cold])
                        /\ call' = [op |-> "_shift_curve",
                                    minimum_approach_temp_diff |-> dt]
    /\ UNCHANGED <<stream, streams, pre>>

\* lines 394-403 and 417 of TQDiagram.__init__, hcc and ccc being the curves
\* that _shift_curve returned: [err, segments]
TQDiagramSegments(streams_, hcc, ccc) ==
    Only({ _get_segments(hcc, ccc, hot_streams, cold_streams)
           : hot_streams \in
                 {Only({ SortBy(hot, [i \in 1..Len(hot) |-> output_temperature(hot[i])])
                         : hot \in {Filter(streams_, [i \in 1..Len(streams_) |->
                                                         is_hot(streams_[i])])} })},
             cold_streams \in
                 {Only({ SortBy(cold, [i \in 1..Len(cold) |-> input_temperature(cold[i])])
                         : cold \in {Filter(streams_, [i \in 1..Len(streams_) |->
                                                          is_cold(streams_[i])])} })} })

\* the constructor of TQDiagram goes on from the return of _shift_curve to
\* the return of _get_segments
GetSegmentsOfAnalysis ==
    /\ call.op = "_shift_curve"
    /\ err = ""
    /\ ret # None
    /\ \E made \in {TQDiagramSegments(DerefList(heap, pa[1].streams), ret[1].hcc,
                                       ret[1].ccc)} :
        /\ err' = made.err
        /\ ret' = IF made.err # "" THEN None
                  ELSE Some([hcc |-> ret[1].hcc, ccc |-> ret[1].ccc,
                             segments |-> made.segments])
        /\ call' = [op |-> "_get_segments",
                    minimum_approach_temp_diff |-> call.minimum_approach_temp_diff]
    /\ UNCHANGED <<stream, streams, gcc, pa, msg, heap, pre>>

NextShifted ==
    \/ ShiftCurvesOfAnalysis
    \/ GetSegmentsOfAnalysis

SpecShifted == InitDiagram /\ [][NextShifted]_vars

----------------------------------------------------------------------------
(* A PinchAnalyzer made of one hot and one cold stream that have a state and
   the flag reboiler_or_reactor, and of utilities. *)

\* the state and the flag reboiler_or_reactor of an internal stream
AttributeInputs == {<<"UNKNOWN", FALSE>>, <<"LIQUID", FALSE>>, <<"GAS", TRUE>>}

\* the internal stream of the inputs and of the attributes
StreamOfAttributes(input, type_, attributes, id_) ==
    StreamInit(input[1], input[2], input[3], type_, attributes[1], Zero, attributes[2],
               id_, "uuid").stream[1]

\* the lists of streams of the caller: a hot and a cold stream and utilities
AttributeLists ==
    {<<StreamOfAttributes(hot, "HOT", hot_attributes, "hot-1"),
       StreamOfAttributes(cold, "COLD", cold_attributes, "cold-1")>>
         \o StreamsOfInputs(heating, "EXTERNAL_HOT", "heating")
         \o StreamsOfInputs(cooling, "EXTERNAL_COLD", "cooling")
     : hot \in InternalInputs("HOT"), cold \in InternalInputs("COLD"),
       hot_attributes \in AttributeInputs, cold_attributes \in AttributeInputs,
       heating \in ExternalLists(R(MaxTemp)), cooling \in ExternalLists(Zero)}

InitAttributes ==
    /\ stream = None
    /\ streams \in AttributeLists
    /\ gcc = None
    /\ pa = None
    /\ msg = ""
    /\ err = ""
    /\ call = [op |-> "none"]
    /\ heap = HeapOfList(streams, Len(streams))
    /\ pre = heap
    /\ ret = None

NextAttributes == NewPinchAnalyzerWithDiagram

SpecAttributes == InitAttributes /\ [][NextAttributes]_vars

----------------------------------------------------------------------------
(* One HeatExchanger made of a heat range and of a hot and a cold plot
   segment, and the area asked of it.  pre is the HeatExchanger object and
   ret what the last call returned. *)

ExchangerTempInputs == {R(n) : n \in 0..MaxTemp}
ExchangerHeatInputs == {R(n) : n \in 0..MaxHeat}

\* the pairs <<start, finish>> of heats and of temperatures
ExchangerHeatPairs ==
    {p \in ExchangerHeatInputs \X ExchangerHeatInputs : RLe(p[1], p[2])}
ExchangerTemperaturePairs ==
    {p \in ExchangerTempInputs \X ExchangerTempInputs : RLe(p[1], p[2])}

InitExchanger ==
    /\ stream = None
    /\ streams = <<>>
    /\ gcc = None
    /\ pa = None
    /\ msg = ""
    /\ err = ""
    /\ call = [op |-> "none"]
    /\ heap = <<>>
    /\ pre = <<>>
    /\ ret = None

\* get_overall_heat_transfer_coefficient(hot_stream_state, cold_stream_state)
GetCoefficient ==
    /\ call.op = "none"
    /\ \E hot_stream_state \in StreamState, cold_stream_state \in StreamState :
        \E coefficient \in {get_overall_heat_transfer_coefficient(hot_stream_state,
                                                                   cold_stream_state)} :
            /\ err' = coefficient.err
            /\ ret' = coefficient.value
            /\ call' = [op |-> "get_overall_heat_transfer_coefficient",
                        hot_stream_state |-> hot_stream_state,
                        cold_stream_state |-> cold_stream_state]
    /\ UNCHANGED <<stream, streams, gcc, pa, msg, pre, heap>>

\* HeatExchanger(heat_range, hot_plot_segment, cold_plot_segment)
NewHeatExchanger ==
    /\ call.op = "none"
    /\ \E heats \in ExchangerHeatPairs, hot \in ExchangerTemperaturePairs,
          cold \in ExchangerTemperaturePairs,
          hot_state \in StreamState, cold_state \in StreamState :
        \E made \in {HeatExchanger(HeatRange(heats[1], heats[2]),
                                   PlotSegment(heats[1], heats[2], hot[1], hot[2],
                                               "hot", hot_state, FALSE),
                                   PlotSegment(heats[1], heats[2], cold[1], cold[2],
                                               "cold", cold_state, FALSE))} :
            /\ err' = made.err
            /\ pre' = IF made.err = "" THEN Some(made.self) ELSE None
            /\ call' = [op |-> "HeatExchanger"]
    /\ UNCHANGED <<stream, streams, gcc, pa, msg, ret, heap>>

\* heat_exchanger.get_area(ignore_unknown)
GetArea ==
    /\ call.op = "HeatExchanger"
    /\ pre # None
    /\ \E ignore_unknown \in BOOLEAN :
        \E area \in {get_area(pre[1], ignore_unknown)} :
            /\ err' = area.err
            /\ ret' = area.value
            /\ call' = [op |-> "get_area", ignore_unknown |-> ignore_unknown]
    /\ UNCHANGED <<stream, streams, gcc, pa, msg, pre, heap>>

NextExchanger ==
    \/ GetCoefficient
    \/ NewHeatExchanger
    \/ GetArea

SpecExchanger == InitExchanger /\ [][NextExchanger]_vars

----------------------------------------------------------------------------
(* A list of Segments of consecutive heat ranges, as _get_segments makes
   them, split and merged.  pre is the list of the Segments and ret what
   _merge_segments returned. *)

MergeDeltaTInputs == {R(n) : n \in 0..(MaxDeltaT - 1)}

\* the temperatures at the ends of n consecutive Segments: they start at 0
\* and each is that before it or one degree more
RECURSIVE MergeBoundaries(_)
MergeBoundaries(n) ==
    IF n = 0 THEN {<<Zero>>}
    ELSE {Append(b, RAdd(b[Len(b)], R(step)))
          : b \in MergeBoundaries(n - 1), step \in 0..1}

\* the duties of the streams of one side of a Segment of heat width 2: one
\* stream, or two that share the heat range
MergeDuties == {<<R(2)>>, <<R(1), R(1)>>}

\* the Segments of the boundaries and of the duties given, [err, segments]
SegmentsOfInputs(hot, cold, hot_duties, cold_duties) ==
    Only({ [err |-> FirstError(made),
            segments |-> IF FirstError(made) # "" THEN <<>>
                         ELSE [k \in 1..Len(made) |-> made[k].self[1]]]
           : made \in
               {[k \in 1..Len(hot_duties) |->
                    Segment(<<R(2 * (k - 1)), R(2 * k)>>,
                            Some(<<hot[k], hot[k + 1]>>), Some(<<cold[k], cold[k + 1]>>),
                            SideStreams("HOT", <<hot[k], hot[k + 1]>>, hot_duties[k]),
                            SideStreams("COLD", <<cold[k], cold[k + 1]>>, cold_duties[k]))]} })

InitMerge ==
    /\ stream = None
    /\ streams = <<>>
    /\ gcc = None
    /\ pa = None
    /\ msg = ""
    /\ err = ""
    /\ call = [op |-> "none"]
    /\ heap = <<>>
    /\ pre = <<>>
    /\ ret = None

\* segments = Segments([Segment(...), ...]), the loop of _get_segments
NewSegments ==
    /\ call.op = "none"
    /\ \E n \in 1..MaxLen :
        \E hot \in MergeBoundaries(n), cold \in MergeBoundaries(n),
           hot_duties \in [1..n -> MergeDuties], cold_duties \in [1..n -> MergeDuties] :
            \E made \in {SegmentsOfInputs(hot, cold, hot_duties, cold_duties)} :
                /\ err' = made.err
                /\ pre' = made.segments
                /\ call' = [op |-> "Segments"]
    /\ UNCHANGED <<stream, streams, gcc, pa, msg, ret, heap>>

\* segments.split(minimum_approach_temp_diff)
SplitSegments ==
    /\ call.op = "Segments"
    /\ err = ""
    /\ \E minimum_approach_temp_diff \in MergeDeltaTInputs :
        /\ pre' = Segments_split(pre, minimum_approach_temp_diff)
        /\ call' = [op |-> "split", minimum_approach_temp_diff |-> minimum_approach_temp_diff]
    /\ UNCHANGED <<stream, streams, gcc, pa, msg, err, ret, heap>>

\* hcc_merged, ccc_merged = _merge_segments(segments)
MergeSegments ==
    /\ call.op = "split"
    /\ \E merged \in {_merge_segments(pre)} :
        /\ err' = merged.err
        /\ ret' = IF merged.err = "" THEN Some(<<merged.hot, merged.cold>>) ELSE None
        /\ call' = [op |-> "_merge_segments"]
    /\ UNCHANGED <<stream, streams, gcc, pa, msg, pre, heap>>

NextMerge ==
    \/ NewSegments
    \/ SplitSegments
    \/ MergeSegments

SpecMerge == InitMerge /\ [][NextMerge]_vars

----------------------------------------------------------------------------
(* Claims about one Stream object (checked under SpecStream). *)

\* the role a constructor call asks for, AUTO resolved by the temperatures
\* ("NONE" when inlet = outlet leaves AUTO unresolved)
C8_Role(c) ==
    IF c.type_ # "AUTO" THEN c.type_
    ELSE IF RLt(c.input, c.output) THEN "COLD"
    ELSE IF RLt(c.output, c.input) THEN "HOT"
    ELSE "NONE"

C8_Invalid(c) ==
    LET role == C8_Role(c)
        internal == role \in {"COLD", "HOT"}
        external == role \in {"EXTERNAL_COLD", "EXTERNAL_HOT"}
        cold == role \in {"COLD", "EXTERNAL_COLD"}
        hot == role \in {"HOT", "EXTERNAL_HOT"}
    IN  \/ c.type_ = "AUTO" /\ c.input = c.output
        \/ internal /\ c.heat_flow = Zero
        \/ external /\ c.heat_flow # Zero
        \/ cold /\ RLt(c.output, c.input)
        \/ hot /\ RLt(c.input, c.output)
        \/ internal /\ c.cost # Zero
        \/ c.state \in {"LIQUID_EVAPORATION", "GAS_CONDENSATION"} /\ c.input # c.output

\* C8: Stream construction raises InvalidStreamError exactly when one of the
\* seven listed conditions holds on its arguments (AUTO with inlet = outlet;
\* internal with duty 0; external with duty /= 0; cold with inlet > outlet; hot
\* with inlet < outlet; internal with cost /= 0; phase-change state and not
\* isothermal) and otherwise yields a stream, whose role under AUTO is COLD
\* when inlet < outlet and HOT when inlet > outlet.
C8_ConstructionRaisesExactly ==
    call.op = "Stream" =>
        /\ err \in {"", "InvalidStreamError"}
        /\ (err = "InvalidStreamError") <=> C8_Invalid(call)
        /\ (err = "") <=> (stream # None)
        /\ stream # None => stream[1].type_ = C8_Role(call)

\* a cold stream given with inlet = outlet and a phase-change state is built
C8_Witness ==
    /\ call.op = "Stream"
    /\ err = ""
    /\ call.type_ = "EXTERNAL_COLD"
    /\ call.input = call.output
    /\ call.state = "LIQUID_EVAPORATION"

\* C9: update_temperature(a, b) on a non-isothermal stream sets the range to
\* [min(a, b), max(a, b)] and the duty to old_duty * new_delta / old_delta and
\* changes nothing else; on an isothermal stream it raises ValueError and
\* leaves the stream as it was.
C9_UpdateTemperature ==
    call.op = "update_temperature" =>
        LET old == pre[1]
            new == stream[1]
            lo == IF RLt(call.output, call.input) THEN call.output ELSE call.input
            hi == IF RLt(call.output, call.input) THEN call.input ELSE call.output
        IN  IF old.temperature_range.finish # old.temperature_range.start
            THEN /\ err = ""
                 /\ new.temperature_range.start = lo
                 /\ new.temperature_range.finish = hi
                 /\ new.temperature_range.delta = RSub(hi, lo)
                 /\ RMul(new.heat_flow, RSub(old.temperature_range.finish,
                                             old.temperature_range.start))
                        = RMul(old.heat_flow, RSub(hi, lo))
                 /\ new = [old EXCEPT !.temperature_range = new.temperature_range,
                                      !.heat_flow = new.heat_flow]
            ELSE /\ err = "ValueError"
                 /\ new = old

\* a duty of 1 over a range of width 2 narrowed to width 1 becomes 1/2
C9_Witness ==
    /\ call.op = "update_temperature"
    /\ err = ""
    /\ pre[1].heat_flow = R(1)
    /\ stream[1].heat_flow = <<1, 2>>

\* C10: update_heat(d) raises ValueError and leaves the stream unchanged
\* exactly when the stream is internal and non-isothermal; on every other
\* stream it sets the duty to d and changes nothing else.
C10_UpdateHeat ==
    call.op = "update_heat" =>
        LET old == pre[1]
            new == stream[1]
            refused == /\ old.type_ \in {"COLD", "HOT"}
                       /\ old.temperature_range.finish # old.temperature_range.start
        IN  /\ err \in {"", "ValueError"}
            /\ (err = "ValueError") <=> refused
            /\ refused => new = old
            /\ ~refused => new = [old EXCEPT !.heat_flow = call.heat_flow]

\* a non-isothermal external stream takes a new duty
C10_Witness ==
    /\ call.op = "update_heat"
    /\ err = ""
    /\ pre[1].type_ = "EXTERNAL_HOT"
    /\ pre[1].temperature_range.delta # Zero
    /\ stream[1].heat_flow = R(2)

\* the sign of a number: -1, 0 or 1
C11_Sign(x) == IF x[1] < 0 THEN -1 ELSE IF x[1] = 0 THEN 0 ELSE 1

\* C11: no update_temperature, update_heat or shift_temperature call that
\* returns changes the sign of the duty of a constructed Stream, and none
\* leaves an internal stream with the duty 0.  (Holding of every call, it
\* holds of every sequence of calls; failing of one call, it fails of the
\* sequence that ends with it.)
C11_DutySignFixed ==
    [][(stream # None /\ stream' # None /\ err' = "") =>
           /\ C11_Sign(stream'[1].heat_flow) = C11_Sign(stream[1].heat_flow)
           /\ is_internal(stream'[1]) => stream'[1].heat_flow # Zero]_vars

----------------------------------------------------------------------------
(* Claims about the range of minimum approach temperatures (checked under
   SpecTempDiff). *)

C25_Internal(hot) ==
    Filter(streams, [i \in 1..Len(streams) |->
                        is_internal(streams[i]) /\ is_hot(streams[i]) = hot])

\* the composite curve of the internal streams of one role, not shifted
C25_Curve(hot) ==
    Only({ _create_composite_curve(
               SortBy(ss, [i \in 1..Len(ss) |->
                              IF hot THEN output_temperature(ss[i])
                              ELSE input_temperature(ss[i])])).curve
           : ss \in {C25_Internal(hot)} })

C25_MaximumHeat(curve) == RMax([i \in 1..Len(curve) |-> curve[i].heat_range.finish])

\* the cold curve moved so that it ends at the heat where the hot curve ends
C25_ColdCurveAligned ==
    [i \in 1..Len(C25_Curve(FALSE)) |->
        shift_heat(C25_Curve(FALSE)[i],
                   RSub(C25_MaximumHeat(C25_Curve(TRUE)),
                        C25_MaximumHeat(C25_Curve(FALSE))))]

\* the least difference of the hot and the cold temperature at the ends of
\* the intervals of the common partition that both curves have
C25_LeastDifference(hcc, ccc) == MinTempDiffOfCurves(hcc, ccc).value

C25_Called == call.op = "get_possible_minimum_temp_diff" /\ err = ""

\* the upper bound for every list is the least temperature difference of the
\* curves aligned at their maximum heat
C25_AlignedAtMaximumHeat ==
    C25_Called => ret[1] = C25_LeastDifference(C25_Curve(TRUE), C25_ColdCurveAligned)

\* the upper bound for the streams of the test is 15
C25_UpperBoundOfExample ==
    (C25_Called /\ streams = DocStreams) => ret[1] = R(15)

\* C25: the range of minimum approach temperatures starts at 0 and ends at
\* the least difference of the hot and the cold temperature over the starts
\* and the finishes of the intervals of the common heat partition on which
\* both curves are defined, the composite curves of the internal streams
\* being built without a shift and aligned so that their maximum heats
\* coincide; for the streams cold 40->90 (150), cold 80->110 (180), hot
\* 125->80 (160), hot 100->60 (160) the upper bound is 15.
C25_AdmissibleRange ==
    /\ C25_AlignedAtMaximumHeat
    /\ C25_UpperBoundOfExample
    /\ (call.op = "get_possible_minimum_temp_diff_range" /\ err = "") =>
          /\ ret[1].start = Zero
          /\ ret[1].finish = C25_LeastDifference(C25_Curve(TRUE), C25_ColdCurveAligned)

\* what the function computes: the cold curve is moved to the end of the hot
\* curve only when the hot curve ends at the larger heat or at the same, and
\* both curves start at heat 0 otherwise; the value for the streams of the
\* test is 90/17
C25_AlignedWhenHotIsLarger ==
    C25_Called =>
        /\ ret[1] = C25_LeastDifference(
                        C25_Curve(TRUE),
                        IF RLe(C25_MaximumHeat(C25_Curve(FALSE)),
                               C25_MaximumHeat(C25_Curve(TRUE)))
                        THEN C25_ColdCurveAligned
                        ELSE C25_Curve(FALSE))
        /\ streams = DocStreams => ret[1] = Rat(90, 17)

\* the function has returned for the streams of the test
C25_ExampleWitness == C25_Called /\ streams = DocStreams

\* the cold curve ends at the larger heat and the value is not the one of the
\* curves aligned at the maximum heat
C25_ColdLargerWitness ==
    /\ C25_Called
    /\ Len(streams) <= MaxLen
    /\ RLt(C25_MaximumHeat(C25_Curve(TRUE)), C25_MaximumHeat(C25_Curve(FALSE)))
    /\ ret[1] # C25_LeastDifference(C25_Curve(TRUE), C25_ColdCurveAligned)

----------------------------------------------------------------------------
(* Claims about the functions on ranges (checked under SpecRange). *)

\* C13: for every list of at least two breakpoints,
\* flatten(get_ranges(breakpoints, cls)) and
\* get_heats(get_heat_ranges(breakpoints)) return sorted(breakpoints).
C13_RoundTrip ==
    (/\ call.op \in {"flatten", "get_heats"}
     /\ call.from # None
     /\ Len(call.from[1]) >= 2) =>
        /\ err = ""
        /\ ret = Some(SortNums(call.from[1]))

\* a round trip of three breakpoints that are not sorted and hold one value
\* twice
C13_Witness ==
    /\ call.op = "flatten"
    /\ call.from = Some(<<R(2), R(0), R(2)>>)
    /\ call.ranges = <<BaseRange(R(0), R(2)), BaseRange(R(2), R(2))>>
    /\ ret = Some(<<R(0), R(2), R(2)>>)

\* one's finish equals the other's start
C14_Adjacent(a, b) == a.finish = b.start \/ b.finish = a.start

\* the call of C14 with its arguments exchanged
C14_Exchanged ==
    IF call.op = "merge" THEN merge(call.other, call.range_)
    ELSE HeatRange_merge(call.other, call.range_)

\* C14: merge(a, b) of two ranges of one class returns a range exactly when
\* the finish of one is the start of the other, and raises ValueError
\* otherwise; merge(b, a) does what merge(a, b) does; the range returned is
\* [min(a.start, b.start), max(a.finish, b.finish)].
C14_MergeDefinedIffMergeable ==
    call.op \in {"merge", "HeatRange.merge"} =>
        /\ err = "" <=> C14_Adjacent(call.range_, call.other)
        /\ err # "" => err = "ValueError" /\ ret = None
        /\ err = "" =>
              /\ ret # None
              /\ ret[1].start = RMinOf(call.range_.start, call.other.start)
              /\ ret[1].finish = RMaxOf(call.range_.finish, call.other.finish)
        /\ C14_Exchanged = [err |-> err, range |-> ret]

\* the later range merged with the earlier one
C14_Witness ==
    /\ call.op = "merge"
    /\ call.range_ = BaseRange(R(1), R(2))
    /\ call.other = BaseRange(R(0), R(1))
    /\ ret = Some(BaseRange(R(0), R(2)))

\* sorted neighbours of the list meet: no gap and no overlap
C15_Continuous(ranges_) ==
    \E ranges \in {SortRanges(ranges_)} :
        \A i \in 1..(Len(ranges) - 1) : ranges[i].finish = ranges[i + 1].start

\* the breakpoints of all the lists
C15_Breakpoints(heat_ranges_list) ==
    UNION {UNION {{heat_ranges_list[k][i].start, heat_ranges_list[k][i].finish} :
                  i \in 1..Len(heat_ranges_list[k])} :
           k \in 1..Len(heat_ranges_list)}

\* C15: get_merged_heat_ranges of lists that are each continuous returns the
\* finest common partition: the ranges between consecutive values of the
\* union of the breakpoints, sorted, each once, none of width zero; a list
\* with a gap or an overlap between sorted neighbours makes it raise
\* ValueError.
C15_FinestCommonPartition ==
    call.op = "get_merged_heat_ranges" =>
        \E lists \in {call.heat_ranges_list} :
        \E points \in {SortSet(C15_Breakpoints(lists))} :
            IF \A k \in 1..Len(lists) : C15_Continuous(lists[k])
            THEN /\ err = ""
                 /\ ret # None
                 /\ Len(ret[1]) = IF points = <<>> THEN 0 ELSE Len(points) - 1
                 /\ \A i \in 1..Len(ret[1]) :
                       /\ ret[1][i].start = points[i]
                       /\ ret[1][i].finish = points[i + 1]
                       /\ RLt(ret[1][i].start, ret[1][i].finish)
            ELSE err = "ValueError" /\ ret = None

\* two lists that share one breakpoint only of three, one of them with a
\* range of width zero
C15_Witness ==
    /\ call.op = "get_merged_heat_ranges"
    /\ call.heat_ranges_list =
           <<<<BaseRange(R(0), R(2)), BaseRange(R(2), R(2))>>,
             <<BaseRange(R(0), R(1)), BaseRange(R(1), R(2))>>>>
    /\ ret = Some(<<BaseRange(R(0), R(1)), BaseRange(R(1), R(2))>>)

\* a list with an overlap makes get_merged_heat_ranges raise
C15_Raises ==
    /\ call.op = "get_merged_heat_ranges"
    /\ call.heat_ranges_list = <<<<BaseRange(R(0), R(2)), BaseRange(R(1), R(2))>>>>
    /\ err = "ValueError"

----------------------------------------------------------------------------
(* Claims about the composite curve (checked under SpecCurve). *)

\* every piece runs upwards in heat and in temperature and starts where the
\* piece before it finishes
C16_Monotone(curve) ==
    /\ \A i \in 1..Len(curve) :
          /\ RLe(curve[i].heat_range.start, curve[i].heat_range.finish)
          /\ RLe(curve[i].temperature_range.start, curve[i].temperature_range.finish)
    /\ \A i \in 2..Len(curve) :
          /\ curve[i].heat_range.start = curve[i - 1].heat_range.finish
          /\ curve[i].temperature_range.start = curve[i - 1].temperature_range.finish

\* no stream of the list has a negative duty
C16_NoNegativeDuty == \A i \in 1..Len(streams) : RLe(Zero, streams[i].heat_flow)

\* C16: the composite curve _create_composite_curve returns for a list of
\* constructed streams of one role is monotone non-decreasing in heat and in
\* temperature: every piece has start heat <= finish heat and start
\* temperature <= finish temperature, and starts at the heat and temperature
\* where the piece before it finishes.
C16_CompositeCurveMonotone ==
    (call.op = "_create_composite_curve" /\ err = "") => C16_Monotone(ret[1])

\* the statement of C16 for the lists without a negative duty
C16_MonotoneWithoutNegativeDuty ==
    (call.op = "_create_composite_curve" /\ C16_NoNegativeDuty) =>
        err = "" /\ C16_Monotone(ret[1])

\* the inlet and outlet temperatures of the streams, and the temperatures of
\* the isothermal streams
C17_Ends ==
    UNION {{streams[i].temperature_range.start, streams[i].temperature_range.finish} :
           i \in 1..Len(streams)}
C17_Isothermal ==
    {streams[i].temperature_range.start :
        i \in {j \in 1..Len(streams) : is_isothermal(streams[j])}}

\* the sub-ranges: between consecutive temperatures, and of width zero at the
\* temperature of an isothermal stream
C17_SubRanges ==
    Only({ {BaseRange(ends[j], ends[j + 1]) : j \in 1..(Len(ends) - 1)}
               \cup {BaseRange(temp, temp) : temp \in C17_Isothermal}
           : ends \in {SortSet(C17_Ends)} })

\* the duty of stream s that falls into the sub-range tr
C17_Share(s, tr) ==
    IF tr.delta = Zero
    THEN IF is_isothermal(s) /\ s.temperature_range.start = tr.start
         THEN s.heat_flow ELSE Zero
    ELSE IF /\ ~is_isothermal(s)
            /\ RLe(s.temperature_range.start, tr.start)
            /\ RLe(tr.finish, s.temperature_range.finish)
         THEN RDiv(RMul(s.heat_flow, tr.delta), s.temperature_range.delta)
         ELSE Zero

\* one piece for each sub-range, from heat 0, each as wide in heat as the
\* duties that fall into its sub-range, up to the sum of the duties
C17_Accumulated(curve) ==
    /\ {curve[i].temperature_range : i \in 1..Len(curve)} = C17_SubRanges
    /\ Len(curve) = Cardinality(C17_SubRanges)
    /\ \A i \in 1..Len(curve) :
          RSub(curve[i].heat_range.finish, curve[i].heat_range.start)
              = RSum([k \in 1..Len(streams) |->
                         C17_Share(streams[k], curve[i].temperature_range)])
    /\ curve # <<>> =>
          /\ curve[1].heat_range.start = Zero
          /\ curve[Len(curve)].heat_range.finish
                = RSum([k \in 1..Len(streams) |-> streams[k].heat_flow])

\* C17: _create_composite_curve of a list of streams of one role returns one
\* piece for each temperature sub-range between consecutive breakpoints (of
\* width zero at the temperature of an isothermal stream); the first piece
\* starts at the heat 0, the heat width of a piece is the sum of the duties of
\* the streams spanning its sub-range, pro rata (the whole duty of an
\* isothermal stream, 0 for a gap), and the last piece finishes at the sum of
\* the duties.
C17_RunningTotalOfDuties ==
    call.op = "_create_composite_curve" => err = "" /\ C17_Accumulated(ret[1])

\* the statement of C17 for the lists without a negative duty
C17_RunningTotalWithoutNegativeDuty ==
    (call.op = "_create_composite_curve" /\ C16_NoNegativeDuty) =>
        err = "" /\ C17_Accumulated(ret[1])

----------------------------------------------------------------------------
(* Claims about the caller's objects (checked under SpecFrame). *)

\* C12: after GrandCompositeCurve(streams, ...) or PinchAnalyzer(streams, ...)
\* and any number of calls of solve_external_heat, the caller's list and every
\* stream in it are as the caller left them: the same streams in the same
\* order, each with its temperature range, duty, role and id (no object of the
\* caller is changed: the shift, the sort, the updates of temperatures and of
\* duties act on copies).
C12_CallerStateUnchanged ==
    call.op \in {"GrandCompositeCurve", "PinchAnalyzer", "solve_external_heat"} =>
        /\ \A r \in 1..Len(pre) : heap[r] = pre[r]
        /\ DerefList(heap, heap[1].items) = streams

\* solve_external_heat has given a duty to a copy of an external stream of a
\* list whose copy was shifted and sorted into another order
C12_Witness ==
    /\ call.op = "solve_external_heat"
    /\ gcc[1].minimum_approach_temp_diff # Zero
    /\ \E i \in 1..Len(gcc[1].external_streams) :
          heap[gcc[1].external_streams[i]].heat_flow # Zero
    /\ \E i \in 1..Len(streams) : is_cold(streams[i])
    /\ \E r \in (Len(pre) + 1)..Len(heap) :
          /\ "items" \in DOMAIN heap[r]
          /\ Len(heap[r].items) = Len(streams)
          /\ DerefList(heap, heap[r].items) # streams

\* the curve built on the heap is the curve built from the values of the list
C12_CurveOfValues ==
    call.op = "GrandCompositeCurve" =>
        /\ err = GrandCompositeCurveInit(streams, call.minimum_approach_temp_diff).err
        /\ err = "" =>
              [gcc[1] EXCEPT !.external_streams = DerefList(heap, @)]
                  = GrandCompositeCurveInit(streams,
                                            call.minimum_approach_temp_diff).gcc[1]

\* a PinchAnalyzer has been built from a list with an external stream, which
\* has its duty in the analyzer's copy
C12_AnalyzerWitness ==
    /\ call.op = "PinchAnalyzer"
    /\ pa # None
    /\ \E i \in 1..Len(streams) : is_external(streams[i])
    /\ \E i \in 1..Len(pa[1].streams) :
          is_external(heap[pa[1].streams[i]])

----------------------------------------------------------------------------
(* Claims about solve_external_heat (checked under SpecSolve). *)

\* the first call of solve_external_heat on a new curve has returned
C24_FirstCall == call.op = "solve_external_heat" /\ call.calls = 1

C24_Externals == 1..Len(gcc[1].external_streams)

C24_Stream(i) == Deref(heap, gcc[1].external_streams[i])

C24_Duty(i) == ret[1][C24_Stream(i).id_]

\* the pinch temperature and the demand an external stream is measured
\* against: the highest pinch and the heating demand for a hot one, the lowest
\* pinch and the cooling demand for a cold one
C24_Pinch(i) ==
    IF is_hot(C24_Stream(i)) THEN gcc[1].maximum_pinch_point_temp
    ELSE gcc[1].minimum_pinch_point_temp

C24_Demand(i) ==
    IF is_hot(C24_Stream(i)) THEN gcc[1].heats[Len(gcc[1].heats)]
    ELSE gcc[1].heats[1]

C24_WrongSide(i) ==
    IF is_hot(C24_Stream(i))
    THEN RLt(output_temperature(C24_Stream(i)), C24_Pinch(i))
    ELSE RLt(C24_Pinch(i), output_temperature(C24_Stream(i)))

C24_Distance(i) == RAbs(RSub(output_temperature(C24_Stream(i)), C24_Pinch(i)))

\* the external streams of the role of stream i that are processed before it
C24_Before(i) ==
    {j \in C24_Externals :
        /\ is_hot(C24_Stream(j)) = is_hot(C24_Stream(i))
        /\ \/ RLt(C24_Distance(j), C24_Distance(i))
           \/ C24_Distance(j) = C24_Distance(i) /\ j < i}

RECURSIVE C24_Sum(_)
C24_Sum(indexes) ==
    IF indexes = {} THEN Zero
    ELSE Only({ RAdd(C24_Duty(i), C24_Sum(indexes \ {i}))
                : i \in {CHOOSE j \in indexes : TRUE} })

C24_Remaining(i) == RSub(C24_Demand(i), C24_Sum(C24_Before(i)))

\* C24: after one call of solve_external_heat on a new curve, an external hot
\* stream with its outlet below the highest pinch temperature and an external
\* cold stream with its (shifted) outlet above the lowest pinch temperature
\* have duty 0; the duty of every external stream is at least 0 and at most
\* the demand left by the streams processed before it, the streams of a role
\* being processed by increasing distance of the outlet from the pinch; the
\* duties of the external hot streams sum to at most the heating demand and
\* those of the external cold streams to at most the cooling demand.
C24_DutiesWithinDemand ==
    C24_FirstCall =>
        \A i \in C24_Externals :
            /\ C24_WrongSide(i) => C24_Duty(i) = Zero
            /\ RLe(Zero, C24_Duty(i))
            /\ RLe(C24_Duty(i), C24_Remaining(i))
            /\ RLe(C24_Sum({j \in C24_Externals :
                               is_hot(C24_Stream(j)) = is_hot(C24_Stream(i))}),
                   C24_Demand(i))

\* two external hot streams on the feasible side have a duty: the nearer one
\* less than the demand, the farther one all that was left
C24_Witness ==
    /\ C24_FirstCall
    /\ \E i \in C24_Externals, j \in C24_Externals :
          /\ j \in C24_Before(i)
          /\ RLt(C24_Distance(j), C24_Distance(i))
          /\ RLt(Zero, C24_Duty(j))
          /\ RLt(Zero, C24_Duty(i))
          /\ C24_Duty(i) = C24_Remaining(i)

\* a stream on the wrong side of the pinch is left without a duty while
\* another one of its role is given one
C24_WrongSideWitness ==
    /\ C24_FirstCall
    /\ \E i \in C24_Externals, j \in C24_Externals :
          /\ is_hot(C24_Stream(j)) = is_hot(C24_Stream(i))
          /\ C24_WrongSide(i)
          /\ RLt(Zero, C24_Duty(j))

\* the second of two streams at one temperature is clipped to what the first
\* one left
C24_ClippedWitness ==
    /\ C24_FirstCall
    /\ \E i \in C24_Externals :
          /\ ~C24_WrongSide(i)
          /\ C24_Before(i) # {}
          /\ C24_Duty(i) = Zero
          /\ C24_Remaining(i) = Zero
          /\ RLt(Zero, C24_Demand(i))

\* the duties of the external streams of one role add up to at most the
\* target of the role
C27_WithinTargets ==
    \A i \in C24_Externals :
        RLe(C24_Sum({j \in C24_Externals :
                        is_hot(C24_Stream(j)) = is_hot(C24_Stream(i))}),
            IF is_hot(C24_Stream(i)) THEN gcc[1].hot_utility_target
            ELSE gcc[1].cold_utility_target)

\* C27: a second or later call of solve_external_heat returns the mapping of
\* ids to duties that the call before it returned (no stream that was left
\* at 0 is given a duty by a later call), and after it the duties of the
\* external hot streams still add up to at most the heating target and those
\* of the external cold streams to at most the cooling target.
C27_Idempotent ==
    (call.op = "solve_external_heat" /\ call.calls >= 2) =>
        /\ ret = pre
        /\ C27_WithinTargets

\* a later call leaves the streams that have a duty as they are
C27_AssignedDutiesKept ==
    (call.op = "solve_external_heat" /\ call.calls >= 2) =>
        \A id_ \in DOMAIN pre[1] :
            pre[1][id_] # Zero => ret[1][id_] = pre[1][id_]

\* the second call has given the whole demand to a stream the first call
\* left at 0
C27_SecondCallWitness ==
    /\ call.op = "solve_external_heat"
    /\ call.calls = 2
    /\ \E i \in C24_Externals :
          /\ pre[1][C24_Stream(i).id_] = Zero
          /\ C24_Duty(i) = C24_Demand(i)
          /\ RLt(Zero, C24_Demand(i))
    /\ ~C27_WithinTargets

----------------------------------------------------------------------------
(* Claims about _shift_curve (checked under SpecShift). *)

\* the segments of the caller's lists before the call and of the lists
\* returned
C18_InputHot == DerefPieces(pre, pre[call.hot_].items)
C18_InputCold == DerefPieces(pre, pre[call.cold_].items)
C18_ReturnedHot == DerefPieces(heap, heap[ret[1].hot].items)
C18_ReturnedCold == DerefPieces(heap, heap[ret[1].cold].items)

\* sorted_ holds the segments of pieces, each as often, in the order of the
\* starts of their heat ranges
C18_IsSorted(sorted_, pieces) ==
    /\ Len(sorted_) = Len(pieces)
    /\ \A i \in 1..Len(pieces) :
           Cardinality({j \in 1..Len(pieces) : pieces[j] = pieces[i]})
               = Cardinality({j \in 1..Len(sorted_) : sorted_[j] = pieces[i]})
    /\ \A i \in 1..(Len(sorted_) - 1) :
           RLe(sorted_[i].heat_range.start, sorted_[i + 1].heat_range.start)

\* the distance between the least start of the cold segments returned and
\* the least start of the cold segments passed
C18_Gap ==
    RSub(RMin([i \in 1..Len(C18_ReturnedCold) |-> C18_ReturnedCold[i].heat_range.start]),
         RMin([i \in 1..Len(C18_InputCold) |-> C18_InputCold[i].heat_range.start]))

\* the hot segments come back sorted, the cold segments sorted and moved by
\* one gap, with their temperature ranges and their widths
C18_Translation ==
    /\ C18_IsSorted(C18_ReturnedHot, C18_InputHot)
    /\ C18_IsSorted(C18_ReturnedCold,
                    [i \in 1..Len(C18_InputCold) |-> shift_heat(C18_InputCold[i], C18_Gap)])
    /\ \A i \in 1..Len(C18_ReturnedCold) :
           RSub(C18_ReturnedCold[i].heat_range.finish, C18_ReturnedCold[i].heat_range.start)
               = C18_ReturnedCold[i].heat_range.delta

\* no object of the caller is changed
C18_InputsUnchanged == \A r \in 1..Len(pre) : heap[r] = pre[r]

\* a list that is not continuous in heat is answered with ValueError
C18_RaisesOnHole ==
    (\/ PlotSegments_is_continuous(C18_InputHot) # None
     \/ PlotSegments_is_continuous(C18_InputCold) # None) => err = "ValueError"

\* the heat at which a curve takes a temperature
C18_HeatAt(pieces, temperature, get_temp) ==
    _get_heat_at_pinch_point(pieces, temperature, get_temp).heat

C18_ColdTemperature == RSub(call.pinch_point_temp, call.minimum_approach_temp_diff)

\* the hot curve returned takes the pinch temperature at the heat at which
\* the cold curve returned takes the pinch temperature less the approach
C18_CurvesMeet ==
    C18_HeatAt(C18_ReturnedHot, call.pinch_point_temp, "finish_heat")
        = C18_HeatAt(C18_ReturnedCold, C18_ColdTemperature, "start_heat")

\* the distance of the two heats before the shift
C18_Distance ==
    RSub(C18_HeatAt(SortBy(C18_InputHot,
                           [i \in 1..Len(C18_InputHot) |-> C18_InputHot[i].heat_range.start]),
                    call.pinch_point_temp, "finish_heat"),
         C18_HeatAt(SortBy(C18_InputCold,
                           [i \in 1..Len(C18_InputCold) |-> C18_InputCold[i].heat_range.start]),
                    C18_ColdTemperature, "start_heat"))

\* x has no more than REL_TOL_DIGIT digits after the point
C18_HasFewDigits(x) == (10 ^ REL_TOL_DIGIT) % x[2] = 0

\* gap is a number of REL_TOL_DIGIT digits nearest to distance: it is no more
\* than half a unit of the last digit away
C18_Nearest(gap, distance) ==
    IF C18_HasFewDigits(distance) THEN gap = distance
    ELSE /\ C18_HasFewDigits(gap)
         /\ 2 * Abs(gap[1] * ((10 ^ REL_TOL_DIGIT) \div gap[2]) * distance[2]
                        - distance[1] * (10 ^ REL_TOL_DIGIT)) <= distance[2]

\* C18 as stated: _shift_curve returns the sorted hot segments and the cold
\* segments moved by one gap, changes no object of the caller, makes the two
\* curves meet at the pinch point, and raises ValueError on a list that is
\* not continuous in heat
C18_PureTranslationToThePinch ==
    call.op = "_shift_curve" =>
        /\ C18_InputsUnchanged
        /\ C18_RaisesOnHole
        /\ err = "" => C18_Translation /\ C18_CurvesMeet

\* C18 amended: as stated, but the gap is the distance of the two heats
\* rounded to REL_TOL_DIGIT digits, so the curves meet when that distance has
\* no more digits
C18_PureTranslationByRoundedGap ==
    call.op = "_shift_curve" =>
        /\ C18_InputsUnchanged
        /\ C18_RaisesOnHole
        /\ err = "" =>
              /\ C18_Translation
              /\ C18_Nearest(C18_Gap, C18_Distance)
              /\ C18_HasFewDigits(C18_Distance) => C18_CurvesMeet

\* a shift by a gap that is not zero of a cold list given out of order, next
\* to a hot list given out of order
C18_Witness ==
    /\ call.op = "_shift_curve"
    /\ err = ""
    /\ C18_Gap # Zero
    /\ C18_ReturnedHot # C18_InputHot
    /\ C18_ReturnedCold # C18_InputCold
    /\ Len(C18_InputCold) = 2
    /\ C18_InputCold[2].heat_range.start # C18_InputCold[1].heat_range.start
    /\ RLt(C18_InputCold[2].heat_range.start, C18_InputCold[1].heat_range.start)
    /\ C18_CurvesMeet

\* a shift by a gap that had to be rounded
C18_RoundedWitness ==
    /\ call.op = "_shift_curve"
    /\ err = ""
    /\ ~C18_HasFewDigits(C18_Distance)

\* ValueError for a list that is not continuous
C18_RaisesWitness ==
    /\ call.op = "_shift_curve"
    /\ err = "ValueError"

----------------------------------------------------------------------------
(* Claims about the construction of a Segment (checked under SpecSplit). *)

\* the Segment that was built
C23_Built == call.op = "Segment" /\ err = "" /\ ret # None

\* the streams, the temperature range and the two lists of pieces of a side
C23_Side(side) ==
    IF side = "hot"
    THEN [streams |-> ret[1].hot_streams,
          temperature_range |-> ret[1].hot_temperature_range,
          pieces |-> ret[1].hot_plot_segments_separated_streams,
          separated |-> ret[1].hot_plot_segments_separated]
    ELSE [streams |-> ret[1].cold_streams,
          temperature_range |-> ret[1].cold_temperature_range,
          pieces |-> ret[1].cold_plot_segments_separated_streams,
          separated |-> ret[1].cold_plot_segments_separated]

\* the pieces of a side are one per stream, in the order of the list, each
\* starts where the one before it ends, the first at the start and the last
\* at the finish of the heat range of the Segment, and each has the id of its
\* stream and the temperature range of the side
C23_Contiguous(s) ==
    /\ Len(s.pieces) = Len(s.streams)
    /\ s.pieces[1].heat_range.start = ret[1].heat_range.start
    /\ s.pieces[Len(s.pieces)].heat_range.finish = ret[1].heat_range.finish
    /\ \A i \in 1..(Len(s.pieces) - 1) :
           s.pieces[i].heat_range.finish = s.pieces[i + 1].heat_range.start
    /\ \A i \in 1..Len(s.pieces) :
           /\ s.pieces[i].uuid = s.streams[i].id_
           /\ s.pieces[i].temperature_range = s.temperature_range[1]

\* every piece but the last is as wide as the duty of its stream
C23_WidthIsDuty(s) ==
    \A i \in 1..(Len(s.pieces) - 1) : s.pieces[i].heat_range.delta = heat(s.streams[i])

\* x is y rounded to REL_TOL_DIGIT digits: y itself when it has no more
\* digits, and otherwise a number of that many digits no more than half a
\* unit of the last digit away
C23_Rounded(x, y) ==
    IF (10 ^ REL_TOL_DIGIT) % y[2] = 0 THEN x = y
    ELSE /\ (10 ^ REL_TOL_DIGIT) % x[2] = 0
         /\ 2 * Abs(x[1] * ((10 ^ REL_TOL_DIGIT) \div x[2]) * y[2]
                        - y[1] * (10 ^ REL_TOL_DIGIT)) <= y[2]

\* every piece but the last ends at its start plus the duty of its stream,
\* rounded
C23_WidthIsRoundedDuty(s) ==
    \A i \in 1..(Len(s.pieces) - 1) :
        C23_Rounded(s.pieces[i].heat_range.finish,
                    RAdd(s.pieces[i].heat_range.start, heat(s.streams[i])))

\* the ends of the pieces of the two sides
C23_Boundaries ==
    UNION {{p[i].heat_range.start : i \in 1..Len(p)} \cup {p[i].heat_range.finish : i \in 1..Len(p)}
           : p \in {C23_Side("hot").pieces, C23_Side("cold").pieces}}

\* heat_ranges is the finest partition with the ends of the pieces of both
\* sides: consecutive ranges of positive width whose ends are those ends
C23_FinestPartition ==
    /\ {ret[1].heat_ranges[k].start : k \in 1..Len(ret[1].heat_ranges)}
           \cup {ret[1].heat_ranges[k].finish : k \in 1..Len(ret[1].heat_ranges)}
         = C23_Boundaries
    /\ \A k \in 1..Len(ret[1].heat_ranges) :
           RLt(ret[1].heat_ranges[k].start, ret[1].heat_ranges[k].finish)
    /\ \A k \in 1..(Len(ret[1].heat_ranges) - 1) :
           ret[1].heat_ranges[k].finish = ret[1].heat_ranges[k + 1].start

\* the temperature range of q is that of the line of p over the heats of q
C23_Interpolates(q, p) ==
    /\ RLe(p.heat_range.start, q.heat_range.start)
    /\ RLe(q.heat_range.finish, p.heat_range.finish)
    /\ q.uuid = p.uuid
    /\ RMul(RSub(q.temperature_range.start, p.temperature_range.start), p.heat_range.delta)
           = RMul(p.temperature_range.delta, RSub(q.heat_range.start, p.heat_range.start))
    /\ RMul(RSub(q.temperature_range.finish, p.temperature_range.start), p.heat_range.delta)
           = RMul(p.temperature_range.delta, RSub(q.heat_range.finish, p.heat_range.start))

\* the separated list of a side has one piece per heat range, on the line of
\* the piece of the stream that covers it
C23_Separated(s) ==
    /\ Len(s.separated) = Len(ret[1].heat_ranges)
    /\ \A k \in 1..Len(s.separated) :
           /\ s.separated[k].heat_range = ret[1].heat_ranges[k]
           /\ \E i \in 1..Len(s.pieces) : C23_Interpolates(s.separated[k], s.pieces[i])

\* the Segment has both sides
C23_TwoSided ==
    /\ C23_Built
    /\ ret[1].hot_temperature_range # None
    /\ ret[1].cold_temperature_range # None

C23_RoundedWitness ==
    /\ C23_TwoSided
    /\ heat(ret[1].hot_streams[1]) = Rat(1, 3)
    /\ ret[1].hot_plot_segments_separated_streams[1].heat_range.delta # Rat(1, 3)

----------------------------------------------------------------------------
(* Claims about Segment.split (checked under SpecSplit). *)

\* the indices of the segments of a list that lie on heat_range
C19_At(plot_segments, heat_range) ==
    {i \in 1..Len(plot_segments) : plot_segments[i].heat_range = heat_range}

\* the separated hot and cold segments i and j lie on one heat range and are
\* closer than the approach at their inlet or at their outlet
C19_TooClose(self, i, j) ==
    /\ self.hot_plot_segments_separated[i].heat_range
           = self.cold_plot_segments_separated[j].heat_range
    /\ \/ RLt(RSub(self.hot_plot_segments_separated[i].temperature_range.start,
                   self.cold_plot_segments_separated[j].temperature_range.start),
              call.minimum_approach_temp_diff)
       \/ RLt(RSub(self.hot_plot_segments_separated[i].temperature_range.finish,
                   self.cold_plot_segments_separated[j].temperature_range.finish),
              call.minimum_approach_temp_diff)

\* the split segments on heat_range and the split segments of the stream uuid
\* have the temperature range temperature_range
C19_FullSpan(splitted, heat_range, uuid_, temperature_range) ==
    \A k \in 1..Len(splitted) :
        (splitted[k].heat_range = heat_range \/ splitted[k].uuid = uuid_) =>
            /\ splitted[k].temperature_range.start = temperature_range.start
            /\ splitted[k].temperature_range.finish = temperature_range.finish

\* C19 for the Segment self after split
C19_SplitOf(self) ==
    /\ \A i \in 1..Len(self.hot_plot_segments_separated) :
       \A j \in 1..Len(self.cold_plot_segments_separated) :
           C19_TooClose(self, i, j) =>
               /\ C19_FullSpan(self.hot_plot_segments_splitted[1],
                               self.hot_plot_segments_separated[i].heat_range,
                               self.hot_plot_segments_separated[i].uuid,
                               self.hot_temperature_range[1])
               /\ C19_FullSpan(self.cold_plot_segments_splitted[1],
                               self.cold_plot_segments_separated[j].heat_range,
                               self.cold_plot_segments_separated[j].uuid,
                               self.cold_temperature_range[1])
    /\ HeatRangesOf(self.hot_plot_segments_splitted[1])
           = HeatRangesOf(self.hot_plot_segments_separated)
    /\ HeatRangesOf(self.cold_plot_segments_splitted[1])
           = HeatRangesOf(self.cold_plot_segments_separated)

\* C19: after split, on every heat range where the separated hot and cold
\* segments are closer than the approach at an end, the split hot and cold
\* segments and every other split segment of the same stream have the whole
\* temperature range of the Segment, and the heat ranges of the split lists
\* are those of the separated lists
C19_SplitSpansWholeRange == call.op = "split" => C19_SplitOf(ret[1])

\* every heat range of the Segment self has separated hot and cold segments
\* closer than the approach at an end
C19_AllTooClose(self) ==
    \A i \in 1..Len(self.hot_plot_segments_separated) :
        \E j \in 1..Len(self.cold_plot_segments_separated) : C19_TooClose(self, i, j)

\* after split with an approach that every heat range violates, every split
\* segment has the whole temperature range of its side, and after every split
\* the heat ranges of the split lists are those of the separated lists
C19_AllViolatedSpansWholeRange ==
    call.op = "split" =>
        /\ C19_AllTooClose(ret[1]) =>
               \A k \in 1..Len(ret[1].hot_plot_segments_splitted[1]) :
                   /\ ret[1].hot_plot_segments_splitted[1][k].temperature_range
                          = ret[1].hot_temperature_range[1]
                   /\ ret[1].cold_plot_segments_splitted[1][k].temperature_range
                          = ret[1].cold_temperature_range[1]
        /\ HeatRangesOf(ret[1].hot_plot_segments_splitted[1])
               = HeatRangesOf(ret[1].hot_plot_segments_separated)
        /\ HeatRangesOf(ret[1].cold_plot_segments_splitted[1])
               = HeatRangesOf(ret[1].cold_plot_segments_separated)

\* a split with an approach that every one of three or more heat ranges
\* violates
C19_AllViolatedWitness ==
    /\ call.op = "split"
    /\ Len(ret[1].heat_ranges) >= 3
    /\ C19_AllTooClose(ret[1])
    /\ \E i \in 1..Len(ret[1].hot_plot_segments_separated) :
           ret[1].hot_plot_segments_splitted[1][i] # ret[1].hot_plot_segments_separated[i]

----------------------------------------------------------------------------
(* Claims about the heat exchangers of an analysis (checked under
   SpecDiagram). *)

\* the analysis of the caller's list has completed
C20_Completed == call.op = "PinchAnalyzer" /\ err = "" /\ pa # None

\* the sum of the widths of the heat ranges of a list of heat exchangers
C20_Duty(heat_exchangers) ==
    RSum([i \in 1..Len(heat_exchangers) |-> heat_exchangers[i].heat_range.delta])

\* the sum of the duties of the streams of a list that are of the types given
C20_StreamDuty(streams_, types) ==
    RSum([i \in 1..Len(streams_) |->
             IF streams_[i].type_ \in types THEN heat(streams_[i]) ELSE Zero])

\* the width of the heat interval that two curves, lists of plot segments in
\* the order of their heats, have in common
C20_SharedHeat(hcc, ccc) ==
    IF hcc = <<>> \/ ccc = <<>> THEN Zero
    ELSE Only({ IF RLt(finish, start) THEN Zero ELSE RSub(finish, start)
                : start \in {RMax(<<hcc[1].heat_range.start, ccc[1].heat_range.start>>)},
                  finish \in {RMin(<<hcc[Len(hcc)].heat_range.finish,
                                     ccc[Len(ccc)].heat_range.finish>>)} })

C20_MergedWitness ==
    /\ C20_Completed
    /\ \E i \in 1..Len(pa[1].heat_exchangers) :
       \E j \in 1..Len(pa[1].tq.segments) :
       \E k \in 1..Len(pa[1].tq.segments[j].heat_ranges) :
           /\ pa[1].heat_exchangers[i].heat_range.start
                  = pa[1].tq.segments[j].heat_ranges[k].start
           /\ RLt(pa[1].tq.segments[j].heat_ranges[k].finish,
                  pa[1].heat_exchangers[i].heat_range.finish)

\* an analysis that completes without utilities and leaves a part of the duty
\* of the hot streams and of the cold streams without a heat exchanger
C20_UnmatchedWitness ==
    /\ C20_Completed
    /\ \A i \in 1..Len(streams) : is_internal(streams[i])
    /\ pa[1].heat_exchangers # <<>>
    /\ RLt(C20_Duty(pa[1].heat_exchangers), C20_StreamDuty(streams, {"HOT"}))
    /\ RLt(C20_Duty(pa[1].heat_exchangers), C20_StreamDuty(streams, {"COLD"}))

----------------------------------------------------------------------------
(* Claims about the shifted composite curves of an analysis (checked under
   SpecShifted). *)

\* _shift_curve has returned the two curves of an analysis
C26_Shifted == call.op = "_shift_curve" /\ err = "" /\ ret # None

\* the duty given to the utilities of a role
C26_UtilityDuty(type_) ==
    RSum([i \in 1..Len(pa[1].streams) |->
             IF heap[pa[1].streams[i]].type_ = type_
             THEN heap[pa[1].streams[i]].heat_flow ELSE Zero])

\* the cascade has given the whole heating demand and the whole cooling
\* demand to utilities
C26_Resolved ==
    /\ C26_UtilityDuty("EXTERNAL_HOT") = pa[1].external_heating_demand[1]
    /\ C26_UtilityDuty("EXTERNAL_COLD") = pa[1].external_cooling_demand[1]

\* the heats at which a piece of one of the two curves starts or finishes
C26_Breakpoints ==
    UNION {{p.heat_range.start, p.heat_range.finish}
           : p \in {ret[1].hcc[i] : i \in 1..Len(ret[1].hcc)}
                    \cup {ret[1].ccc[i] : i \in 1..Len(ret[1].ccc)}}

\* the temperatures of a piece at the heat q: one temperature on a piece of
\* non-zero heat width, both ends of a piece of no width
C26_TemperaturesAt(p, q) ==
    IF p.heat_range.delta = Zero
    THEN {p.temperature_range.start, p.temperature_range.finish}
    ELSE {RAdd(p.temperature_range.start,
               RDiv(RMul(p.temperature_range.delta, RSub(q, p.heat_range.start)),
                    p.heat_range.delta))}

\* a hot and a cold piece of non-zero heat width over one interval of the
\* common partition
C26_Facing(p, c) ==
    /\ p.heat_range.delta # Zero
    /\ c.heat_range.delta # Zero
    /\ RLt(p.heat_range.start, c.heat_range.finish)
    /\ RLt(c.heat_range.start, p.heat_range.finish)

\* a hot piece, a cold piece and a breakpoint that both pieces have
C26_Meetings ==
    {x \in (1..Len(ret[1].hcc)) \X (1..Len(ret[1].ccc)) \X C26_Breakpoints :
        /\ RLe(ret[1].hcc[x[1]].heat_range.start, x[3])
        /\ RLe(x[3], ret[1].hcc[x[1]].heat_range.finish)
        /\ RLe(ret[1].ccc[x[2]].heat_range.start, x[3])
        /\ RLe(x[3], ret[1].ccc[x[2]].heat_range.finish)}

\* the differences of the hot and the cold temperature at the breakpoints
\* of the common partition: at the ends of the intervals that both curves
\* cover (facing), or wherever the two curves have a point at one heat
C26_Differences(facing) ==
    UNION {{RSub(th, tc) : th \in C26_TemperaturesAt(ret[1].hcc[x[1]], x[3]),
                           tc \in C26_TemperaturesAt(ret[1].ccc[x[2]], x[3])}
           : x \in {y \in C26_Meetings :
                        facing => C26_Facing(ret[1].hcc[y[1]], ret[1].ccc[y[2]])}}

\* the hot temperature is nowhere less than the cold temperature plus the
\* minimum approach temperature difference
C26_AtLeastMinimum ==
    (C26_Shifted /\ C26_Resolved) =>
        \A d \in C26_Differences(TRUE) : RLe(call.minimum_approach_temp_diff, d)

\* C26: for the composite curves of a valid list of streams whose utilities
\* the cascade has resolved, after _shift_curve with the pinch temperature of
\* the cascade and the minimum approach temperature difference, the hot
\* temperature less the cold temperature is at least the minimum approach
\* temperature difference at every breakpoint of the common heat partition
\* where both curves are defined, and equal to it at the pinch.
C26_ApproachAtLeastMinimum ==
    /\ C26_AtLeastMinimum
    /\ (C26_Shifted /\ C26_Resolved) =>
           call.minimum_approach_temp_diff \in C26_Differences(FALSE)

\* the same for the analyses whose curve has one pinch point, so that the
\* pinch temperature is the same whichever pinch point the analyzer takes
C26_AtLeastMinimumAtOnePinch ==
    (C26_Shifted /\ C26_Resolved
        /\ gcc[1].maximum_pinch_point_temp = gcc[1].minimum_pinch_point_temp) =>
        \A d \in C26_Differences(TRUE) : RLe(call.minimum_approach_temp_diff, d)

\* the curves meet at the minimum approach temperature difference somewhere
C26_EqualityAtPinch ==
    (C26_Shifted /\ C26_Resolved) =>
        call.minimum_approach_temp_diff \in C26_Differences(FALSE)

\* an isothermal hot piece lies under the cold curve after the shift, both
\* utilities holding the whole demands
C26_CrossingWitness ==
    /\ C26_Shifted
    /\ C26_Resolved
    /\ RLt(Zero, pa[1].external_heating_demand[1])
    /\ RLt(Zero, pa[1].external_cooling_demand[1])
    /\ gcc[1].maximum_pinch_point_temp = gcc[1].minimum_pinch_point_temp
    /\ \E d \in C26_Differences(TRUE) : RLt(d, call.minimum_approach_temp_diff)

\* the curves of an analysis with a heater in use keep the minimum approach
\* temperature difference
C26_KeptWitness ==
    /\ C26_Shifted
    /\ C26_Resolved
    /\ RLt(Zero, pa[1].external_heating_demand[1])
    /\ C26_Differences(TRUE) # {}
    /\ \A d \in C26_Differences(TRUE) : RLe(call.minimum_approach_temp_diff, d)

----------------------------------------------------------------------------
(* Claims about the Segments of an analysis (checked under SpecShifted). *)

\* _get_segments has returned the Segments of the analysis
C29_Decomposed == call.op = "_get_segments" /\ err = "" /\ ret # None

\* the hot and the cold streams that the constructor hands to _get_segments
C29_Streams == DerefList(heap, pa[1].streams)

\* the per-stream pieces of all the Segments
C29_Pieces ==
    Concat([i \in 1..Len(ret[1].segments) |->
               ret[1].segments[i].hot_plot_segments_separated_streams
                   \o ret[1].segments[i].cold_plot_segments_separated_streams])

\* the widths of the pieces that carry an id, summed over all the Segments
C29_Width(id_) ==
    RSum([i \in 1..Len(C29_Pieces) |->
             IF C29_Pieces[i].uuid = id_ THEN C29_Pieces[i].heat_range.delta ELSE Zero])

\* two isothermal streams of one side have the same temperature
C29_SharedTemperature ==
    \E i, j \in 1..Len(C29_Streams) :
        /\ i < j
        /\ is_isothermal(C29_Streams[i]) /\ is_isothermal(C29_Streams[j])
        /\ is_hot(C29_Streams[i]) = is_hot(C29_Streams[j])
        /\ input_temperature(C29_Streams[i]) = input_temperature(C29_Streams[j])

\* C29: the decomposition conserves the duty of every stream: the widths of
\* the per-stream pieces that carry the id of a hot or a cold stream, summed
\* over all the Segments that _get_segments returns, are the duty of that
\* stream, isothermal streams of one temperature included
C29_DutyConserved ==
    C29_Decomposed =>
        \A i \in 1..Len(C29_Streams) : C29_Width(C29_Streams[i].id_) = heat(C29_Streams[i])

\* the same for the analyses whose curve has one pinch point, so that the
\* pinch temperature is the same whichever pinch point the analyzer takes
C29_DutyConservedAtOnePinch ==
    (C29_Decomposed
        /\ gcc[1].maximum_pinch_point_temp = gcc[1].minimum_pinch_point_temp) =>
        \A i \in 1..Len(C29_Streams) : C29_Width(C29_Streams[i].id_) = heat(C29_Streams[i])

\* the duty of every stream is conserved when no two isothermal streams of
\* one side have the same temperature
C29_DutyConservedApart ==
    (C29_Decomposed /\ ~C29_SharedTemperature) =>
        \A i \in 1..Len(C29_Streams) : C29_Width(C29_Streams[i].id_) = heat(C29_Streams[i])

\* the duties of one side are conserved as a whole
C29_TotalConserved ==
    C29_Decomposed =>
        RSum([i \in 1..Len(C29_Streams) |-> C29_Width(C29_Streams[i].id_)])
            = RSum([i \in 1..Len(C29_Streams) |-> heat(C29_Streams[i])])

\* Segments of an analysis with two isothermal streams of one temperature
C29_SharedWitness == C29_Decomposed /\ C29_SharedTemperature

\* Segments of an analysis whose streams all have their own temperatures, an
\* isothermal stream among them
C29_ApartWitness ==
    /\ C29_Decomposed
    /\ ~C29_SharedTemperature
    /\ \E i \in 1..Len(C29_Streams) :
           is_isothermal(C29_Streams[i]) /\ heat(C29_Streams[i]) # Zero

----------------------------------------------------------------------------
(* Claims about the attributes of the heat exchangers of an analysis (checked
   under SpecAttributes). *)

\* the constructor of the analyzer has returned
C30_Completed == call.op = "PinchAnalyzer" /\ err = "" /\ pa # None

\* the streams of the analyzer that have an id
C30_Owners(id_) ==
    {s \in {DerefList(heap, pa[1].streams)[i] : i \in 1..Len(pa[1].streams)} : s.id_ = id_}

\* a heat exchanger has the states of the streams of its two pieces, and its
\* flag is that of one of the two at least
C30_Carries(heat_exchanger) ==
    /\ \A s \in C30_Owners(heat_exchanger.hot_stream_uuid) :
           heat_exchanger.hot_stream_state = s.state
    /\ \A s \in C30_Owners(heat_exchanger.cold_stream_uuid) :
           heat_exchanger.cold_stream_state = s.state
    /\ \A h \in C30_Owners(heat_exchanger.hot_stream_uuid),
          c \in C30_Owners(heat_exchanger.cold_stream_uuid) :
           heat_exchanger.reboiler_or_reactor
               = (h.reboiler_or_reactor \/ c.reboiler_or_reactor)

\* the heat exchangers of the analyzer and those of its diagram
C30_HeatExchangers ==
    {pa[1].heat_exchangers[i] : i \in 1..Len(pa[1].heat_exchangers)}
    \cup {pa[1].tq.heat_exchangers[i] : i \in 1..Len(pa[1].tq.heat_exchangers)}

\* C30: every heat exchanger of an analysis has the attributes of the
\* streams that own its pieces: its hot and cold stream states are the states
\* of the streams whose ids the pieces carry, and reboiler_or_reactor is true
\* exactly when the hot or the cold one of these streams has the flag
C30_AttributesOfOwners ==
    C30_Completed => \A x \in C30_HeatExchangers : C30_Carries(x)

\* every heat exchanger of an analysis has the state UNKNOWN on both sides
\* and the flag FALSE, the default values of a PlotSegment
C30_DefaultAttributes ==
    C30_Completed =>
        \A x \in C30_HeatExchangers :
            /\ x.hot_stream_state = "UNKNOWN"
            /\ x.cold_stream_state = "UNKNOWN"
            /\ ~x.reboiler_or_reactor

\* every piece of a heat exchanger has the id of a stream of the analyzer
C30_PiecesAreOwned ==
    C30_Completed =>
        \A x \in C30_HeatExchangers :
            /\ C30_Owners(x.hot_stream_uuid) # {}
            /\ C30_Owners(x.cold_stream_uuid) # {}

\* an analysis with a heat exchanger between a stream that is a liquid and a
\* stream of a reboiler
C30_OwnedWitness ==
    /\ C30_Completed
    /\ \E x \in C30_HeatExchangers :
           /\ \E h \in C30_Owners(x.hot_stream_uuid) : h.state = "LIQUID"
           /\ \E c \in C30_Owners(x.cold_stream_uuid) : c.reboiler_or_reactor

\* an analysis with heat exchangers whose streams have no state and no flag
C30_PlainWitness ==
    /\ C30_Completed
    /\ C30_HeatExchangers # {}
    /\ \A i \in 1..Len(pa[1].streams) :
           /\ heap[pa[1].streams[i]].state = "UNKNOWN"
           /\ ~heap[pa[1].streams[i]].reboiler_or_reactor

----------------------------------------------------------------------------
(* Claims about the heat transfer coefficient and the area of a heat
   exchanger (checked under SpecExchanger). *)

\* the states of a hot and of a cold stream that the table has
C21_HotStates == {"LIQUID", "GAS", "GAS_CONDENSATION"}
C21_ColdStates == {"LIQUID", "GAS", "LIQUID_EVAPORATION"}

\* the lookup of the coefficient of the exchanger fails
C21_LookupFails ==
    \/ pre[1].hot_stream_state \notin C21_HotStates
    \/ pre[1].cold_stream_state \notin C21_ColdStates

\* the computation of the area fails: the mean temperature difference is zero,
\* the two curves having the same temperatures at both ends
C21_AreaFails ==
    /\ pre[1].hot_temperature_range.start = pre[1].cold_temperature_range.start
    /\ pre[1].hot_temperature_range.finish = pre[1].cold_temperature_range.finish

\* C21: get_overall_heat_transfer_coefficient returns the value of the table
\* when the hot state is LIQUID, GAS or GAS_CONDENSATION and the cold state is
\* LIQUID, GAS or LIQUID_EVAPORATION and raises ValueError for every other
\* pair; get_area(ignore_unknown=True) never raises and returns 1.0 whenever
\* the lookup or the computation of the area fails, and
\* get_area(ignore_unknown=False) raises that error
C21_CoefficientAndArea ==
    /\ call.op = "get_overall_heat_transfer_coefficient" =>
           IF call.hot_stream_state \in C21_HotStates
                  /\ call.cold_stream_state \in C21_ColdStates
           THEN /\ err = ""
                /\ ret = Some(OVERALL_HEAT_TRANSFER_COEFFICIENT[call.hot_stream_state]
                                                               [call.cold_stream_state])
                /\ (call.hot_stream_state = "LIQUID" /\ call.cold_stream_state = "LIQUID"
                        => ret = Some(R(300)))
           ELSE err = "ValueError" /\ ret = None
    /\ call.op = "get_area" /\ call.ignore_unknown =>
           /\ err = ""
           /\ ret # None
           /\ C21_LookupFails \/ C21_AreaFails => ret = Some(R(1))
           /\ ~(C21_LookupFails \/ C21_AreaFails) =>
                  /\ ret[1].heat = pre[1].heat_range.delta
                  /\ ret[1].coefficient
                         = OVERALL_HEAT_TRANSFER_COEFFICIENT[pre[1].hot_stream_state]
                                                            [pre[1].cold_stream_state]
    /\ call.op = "get_area" /\ ~call.ignore_unknown =>
           /\ C21_LookupFails => err = "ValueError" /\ ret = None
           /\ ~C21_LookupFails /\ C21_AreaFails => err = "ZeroDivisionError" /\ ret = None
           /\ ~(C21_LookupFails \/ C21_AreaFails) => err = "" /\ ret # None

\* an exchanger of a hot stream of unknown state whose area was asked with
\* ignore_unknown and is the placeholder
C21_Witness ==
    /\ call.op = "get_area"
    /\ call.ignore_unknown
    /\ pre[1].hot_stream_state = "UNKNOWN"
    /\ ~C21_AreaFails
    /\ ret = Some(R(1))

\* an exchanger whose two curves coincide and whose area was asked without
\* ignore_unknown: the division by the mean temperature difference raises
C21_DivisionWitness ==
    /\ call.op = "get_area"
    /\ ~call.ignore_unknown
    /\ ~C21_LookupFails
    /\ C21_AreaFails
    /\ err = "ZeroDivisionError"

\* a lookup that raises for a cold stream that condenses
C21_LookupWitness ==
    /\ call.op = "get_overall_heat_transfer_coefficient"
    /\ call.hot_stream_state = "GAS"
    /\ call.cold_stream_state = "GAS_CONDENSATION"
    /\ err = "ValueError"

----------------------------------------------------------------------------
(* Claims about _merge_segments (checked under SpecMerge). *)

\* the heat ranges of the split plot segments of one side of the Segments, in
\* the order of their starts
C22_SplitRanges(side) ==
    HeatRangesOf(SortedPlotSegments(Concat(
        [i \in 1..Len(pre) |->
            IF side = "hot" THEN pre[i].hot_plot_segments_splitted[1]
            ELSE pre[i].cold_plot_segments_splitted[1]])))

\* the heat ranges of the list returned for one side
C22_MergedRanges(side) == HeatRangesOf(IF side = "hot" THEN ret[1][1] ELSE ret[1][2])

\* every range of merged_ is the union of consecutive ranges of split_
C22_Unions(split_, merged_) ==
    \A k \in 1..Len(merged_) :
        \E i \in 1..Len(split_) : \E j \in i..Len(split_) :
            /\ merged_[k].start = split_[i].start
            /\ merged_[k].finish = split_[j].finish
            /\ \A l \in i..(j - 1) : split_[l].finish = split_[l + 1].start

\* no two ranges of merged_ have more than an end in common
C22_Disjoint(merged_) ==
    \A k \in 1..Len(merged_) : \A l \in (k + 1)..Len(merged_) :
        RLe(RMin(<<merged_[k].finish, merged_[l].finish>>),
            RMax(<<merged_[k].start, merged_[l].start>>))

\* the ranges of merged_ span the heats the ranges of split_ span
C22_SameSpan(split_, merged_) ==
    /\ merged_ # <<>>
    /\ RMin([k \in 1..Len(merged_) |-> merged_[k].start]) = split_[1].start
    /\ RMax([k \in 1..Len(merged_) |-> merged_[k].finish]) = split_[Len(split_)].finish

\* the sum of the widths of the ranges
C22_Width(ranges) == RSum([k \in 1..Len(ranges) |-> ranges[k].delta])

\* C22: the lists returned by _merge_segments are a coarsening of the split
\* lists: on each side every returned heat range is the union of consecutive
\* split heat ranges, no two returned heat ranges of a side overlap in more
\* than an end, together they cover exactly the heats the split pieces cover,
\* and there are no more of them than split pieces
C22_MergedIsCoarsening ==
    call.op = "_merge_segments" /\ err = "" =>
        \A side \in {"hot", "cold"} :
            /\ C22_Unions(C22_SplitRanges(side), C22_MergedRanges(side))
            /\ C22_Disjoint(C22_MergedRanges(side))
            /\ C22_SameSpan(C22_SplitRanges(side), C22_MergedRanges(side))
            /\ C22_Width(C22_MergedRanges(side)) = C22_Width(C22_SplitRanges(side))
            /\ Len(C22_MergedRanges(side)) <= Len(C22_SplitRanges(side))

\* what does hold of the lists returned: every returned heat range is the
\* union of one or two consecutive split heat ranges, the returned ranges span
\* the heats of the split ones, there are no more of them, and the two sides
\* have the same heat ranges
C22_MergedAreUnions ==
    call.op = "_merge_segments" /\ err = "" =>
        /\ \A side \in {"hot", "cold"} :
            /\ C22_Unions(C22_SplitRanges(side), C22_MergedRanges(side))
            /\ C22_SameSpan(C22_SplitRanges(side), C22_MergedRanges(side))
            /\ Len(C22_MergedRanges(side)) <= Len(C22_SplitRanges(side))
            /\ RLe(C22_Width(C22_SplitRanges(side)), C22_Width(C22_MergedRanges(side)))
        /\ C22_MergedRanges("hot") = C22_MergedRanges("cold")

\* three Segments merged into two overlapping pieces
C22_OverlapWitness ==
    /\ call.op = "_merge_segments"
    /\ err = ""
    /\ Len(pre) = 3
    /\ ~C22_Disjoint(C22_MergedRanges("hot"))

\* two of three Segments merged into one piece, the third left alone
C22_MergedWitness ==
    /\ call.op = "_merge_segments"
    /\ err = ""
    /\ Len(C22_SplitRanges("hot")) = 3
    /\ Len(C22_MergedRanges("hot")) = 2
    /\ C22_Disjoint(C22_MergedRanges("hot"))

----------------------------------------------------------------------------
(* Claims about the grand composite curve (checked under SpecGcc). *)

InternalOf(ss) == {i \in 1..Len(ss) : ss[i].type_ \in {"COLD", "HOT"}}

\* C1: for every list with at least one (validly constructed) internal stream
\* and every minimum approach temperature the GrandCompositeCurve is built,
\* every entry of its heats is >= 0 and at least one entry is exactly 0, so
\* _set_pinch_point never raises the "no zero in heats" ValueError.
C1_HeatsMinimumIsZero ==
    (call.op = "GrandCompositeCurve" /\ InternalOf(streams) # {}) =>
        /\ err = ""
        /\ gcc # None
        /\ Len(gcc[1].heats) >= 1
        /\ \A i \in 1..Len(gcc[1].heats) : RLe(Zero, gcc[1].heats[i])
        /\ \E i \in 1..Len(gcc[1].heats) : gcc[1].heats[i] = Zero

\* a curve whose first heat is not 0: the cascade went below its start and the
\* normalisation lifted it
C1_Witness ==
    /\ call.op = "GrandCompositeCurve"
    /\ gcc # None
    /\ Len(streams) <= MaxStreams
    /\ gcc[1].heats[1] # Zero
    /\ gcc[1].heats[Len(gcc[1].heats)] = Zero

\* the sum of the duties of the internal streams of the caller's list that
\* are hot, or that are cold
C28_InternalDuty(hot) ==
    RSum([i \in 1..Len(streams) |->
             IF is_internal(streams[i]) /\ is_hot(streams[i]) = hot
             THEN heat(streams[i]) ELSE Zero])

C28_Built == call.op = "GrandCompositeCurve" /\ err = "" /\ gcc # None

\* C28: for every list of valid streams and every minimum approach
\* temperature difference the curve is built for, the last entry of heats
\* (the external heating demand) less the first (the external cooling demand)
\* is the total duty of the internal cold streams less the total duty of the
\* internal hot streams.
C28_EnergyBalance ==
    C28_Built =>
        RSub(gcc[1].heats[Len(gcc[1].heats)], gcc[1].heats[1])
            = RSub(C28_InternalDuty(FALSE), C28_InternalDuty(TRUE))

\* a curve with a heating and a cooling demand, built from hot and cold
\* streams one of which is isothermal, and with the pinch inside
C28_Witness ==
    /\ C28_Built
    /\ Len(streams) <= MaxStreams
    /\ gcc[1].heats[1] # Zero
    /\ gcc[1].heats[Len(gcc[1].heats)] # Zero
    /\ C28_InternalDuty(TRUE) # C28_InternalDuty(FALSE)
    /\ \E i \in 1..Len(streams) : is_isothermal(streams[i])

\* the curve of the streams of the tests: demands 30 and 40 for duties 330
\* and 340
C28_ExampleWitness ==
    /\ C28_Built
    /\ streams = TestStreams
    /\ call.minimum_approach_temp_diff = R(ExampleDeltaT)
    /\ gcc[1].heats[1] # Zero
    /\ gcc[1].heats[Len(gcc[1].heats)] # Zero

ExampleTemps == <<R(50), R(60), R(80), R(90), R(100), R(120), R(125)>>

\* C2 as the specification states it: the example with the third duty 160 and
\* a minimum approach temperature of 10 has temps [50,60,80,90,100,120,125],
\* heats [40,70,50,0,10,50,30] and pinch temperature 90.
C2_ExampleAsStated ==
    (/\ call.op = "GrandCompositeCurve"
     /\ streams = DocStreams
     /\ call.minimum_approach_temp_diff = R(ExampleDeltaT)) =>
        /\ gcc # None
        /\ gcc[1].temps = ExampleTemps
        /\ gcc[1].heats = <<R(40), R(70), R(50), R(0), R(10), R(50), R(30)>>
        /\ gcc[1].maximum_pinch_point_temp = R(90)
        /\ gcc[1].minimum_pinch_point_temp = R(90)

\* C2, amended: the example with the third duty 160 and a minimum approach
\* temperature of 10 has temps [50,60,80,90,100,120,125], heats
\* [320/9, 590/9, 410/9, 0, 130/9, 570/9, 410/9] and pinch temperature 90.
C2_ExampleAmended ==
    (/\ call.op = "GrandCompositeCurve"
     /\ streams = DocStreams
     /\ call.minimum_approach_temp_diff = R(ExampleDeltaT)) =>
        /\ gcc # None
        /\ gcc[1].temps = ExampleTemps
        /\ gcc[1].heats = <<Rat(320, 9), Rat(590, 9), Rat(410, 9), Zero,
                            Rat(130, 9), Rat(570, 9), Rat(410, 9)>>
        /\ gcc[1].maximum_pinch_point_temp = R(90)
        /\ gcc[1].minimum_pinch_point_temp = R(90)

\* the curve of the example with the third duty 160 has been built
C2_Witness ==
    /\ call.op = "GrandCompositeCurve"
    /\ streams = DocStreams
    /\ call.minimum_approach_temp_diff = R(ExampleDeltaT)
    /\ gcc # None
    /\ gcc[1].cold_utility_target = Rat(320, 9)

\* the temperature range of a stream as the curve sees it: a cold stream's
\* range moved up by dt
C3_Lo(s, dt) == IF s.type_ = "COLD" THEN RAdd(s.temperature_range.start, dt)
                ELSE s.temperature_range.start
C3_Hi(s, dt) == IF s.type_ = "COLD" THEN RAdd(s.temperature_range.finish, dt)
                ELSE s.temperature_range.finish

C3_Breakpoints(ss, dt) ==
    UNION {{C3_Lo(ss[i], dt), C3_Hi(ss[i], dt)} : i \in InternalOf(ss)}

\* the pro-rata duty of s over [lo, hi]; an isothermal stream gives its whole
\* duty to the degenerate interval at its temperature
C3_Share(s, dt, lo, hi) ==
    LET a == C3_Lo(s, dt)
        b == C3_Hi(s, dt)
    IN  IF lo = hi
        THEN IF a = lo /\ b = lo THEN s.heat_flow ELSE Zero
        ELSE IF a # b /\ RLe(a, lo) /\ RLe(hi, b)
             THEN RDiv(RMul(s.heat_flow, RSub(hi, lo)), RSub(b, a))
             ELSE Zero

C3_Net(ss, dt, lo, hi) ==
    RSub(RSum([i \in 1..Len(ss) |->
                  IF ss[i].type_ = "COLD" THEN C3_Share(ss[i], dt, lo, hi) ELSE Zero]),
         RSum([i \in 1..Len(ss) |->
                  IF ss[i].type_ = "HOT" THEN C3_Share(ss[i], dt, lo, hi) ELSE Zero]))

\* C3: temps of a GrandCompositeCurve is the ascending list of the breakpoints
\* of the hot streams' ranges and of the cold streams' ranges moved up by the
\* minimum approach temperature (a temperature listed twice exactly where an
\* isothermal stream sits), and heats[i+1] - heats[i] is the sum of the
\* pro-rata duties of the cold streams spanning [temps[i], temps[i+1]] minus
\* that of the hot streams; the streams of the test with a minimum approach
\* temperature of 10 give temps [50,60,80,90,100,120,125], heats
\* [40,70,50,0,10,50,30] and one pinch, index 3, temperature 90.
C3_TempsAndHeatDifferences ==
    (call.op = "GrandCompositeCurve" /\ gcc # None) =>
        LET g == gcc[1]
            dt == call.minimum_approach_temp_diff
            n == Len(g.temps)
        IN  /\ {g.temps[i] : i \in 1..n} = C3_Breakpoints(streams, dt)
            /\ \A i \in 1..(n - 1) : RLe(g.temps[i], g.temps[i + 1])
            /\ \A i \in 1..n :
                   Count(g.temps, g.temps[i]) =
                       IF \E k \in InternalOf(streams) :
                              /\ C3_Lo(streams[k], dt) = g.temps[i]
                              /\ C3_Hi(streams[k], dt) = g.temps[i]
                       THEN 2 ELSE 1
            /\ Len(g.heats) = n
            /\ \A i \in 1..(n - 1) :
                   RSub(g.heats[i + 1], g.heats[i]) =
                       C3_Net(streams, dt, g.temps[i], g.temps[i + 1])
            /\ (streams = TestStreams /\ dt = R(ExampleDeltaT)) =>
                   /\ g.temps = ExampleTemps
                   /\ g.heats = <<R(40), R(70), R(50), R(0), R(10), R(50), R(30)>>
                   /\ g.minimum_pinch_point_index = 3
                   /\ g.maximum_pinch_point_index = 3
                   /\ g.minimum_pinch_point_temp = R(90)
                   /\ g.maximum_pinch_point_temp = R(90)

\* the curve of the streams of the test has been built
C3_Witness ==
    /\ call.op = "GrandCompositeCurve"
    /\ streams = TestStreams
    /\ call.minimum_approach_temp_diff = R(ExampleDeltaT)
    /\ gcc # None
    /\ gcc[1].cold_utility_target = R(40)

\* C4: minimum_pinch_point_index is the smallest and maximum_pinch_point_index
\* the largest index i with heats[i] = 0, the two pinch temperatures are temps
\* at these indexes, hot_utility_target is the last and cold_utility_target
\* the first element of heats.
C4_PinchPointsAndTargets ==
    (call.op = "GrandCompositeCurve" /\ gcc # None) =>
        LET g == gcc[1]
            zeros == {i \in 0..(Len(g.heats) - 1) : g.heats[i + 1] = Zero}
        IN  /\ g.minimum_pinch_point_index \in zeros
            /\ g.maximum_pinch_point_index \in zeros
            /\ \A i \in zeros : /\ g.minimum_pinch_point_index <= i
                                /\ i <= g.maximum_pinch_point_index
            /\ g.minimum_pinch_point_temp = g.temps[g.minimum_pinch_point_index + 1]
            /\ g.maximum_pinch_point_temp = g.temps[g.maximum_pinch_point_index + 1]
            /\ g.hot_utility_target = g.heats[Len(g.heats)]
            /\ g.cold_utility_target = g.heats[1]

\* a curve that touches zero at two temperatures
C4_Witness ==
    /\ call.op = "GrandCompositeCurve"
    /\ gcc # None
    /\ gcc[1].minimum_pinch_point_index < gcc[1].maximum_pinch_point_index
    /\ gcc[1].minimum_pinch_point_temp # gcc[1].maximum_pinch_point_temp

----------------------------------------------------------------------------
(* Claims about validate_streams and the PinchAnalyzer constructor (checked
   under SpecAnalyzer). *)

HotOf(ss) == {i \in 1..Len(ss) : ss[i].type_ \in {"HOT", "EXTERNAL_HOT"}}
ColdOf(ss) == {i \in 1..Len(ss) : ss[i].type_ \in {"COLD", "EXTERNAL_COLD"}}
ExternalOf(ss) == {i \in 1..Len(ss) : ss[i].type_ \in {"EXTERNAL_HOT", "EXTERNAL_COLD"}}

\* the highest and the lowest temperature of the streams I of ss
HighestOf(ss, I) ==
    CHOOSE x \in {ss[i].temperature_range.finish : i \in I} :
        \A i \in I : RLe(ss[i].temperature_range.finish, x)
LowestOf(ss, I) ==
    CHOOSE x \in {ss[i].temperature_range.start : i \in I} :
        \A i \in I : RLe(x, ss[i].temperature_range.start)

\* the checks of the claim, by number
SharedId(ss) == \E i, j \in 1..Len(ss) : i # j /\ ss[i].id_ = ss[j].id_
NoHotOrNoCold(ss) == HotOf(ss) = {} \/ ColdOf(ss) = {}
HotMaxNotAboveColdMin(ss) == RLe(HighestOf(ss, HotOf(ss)), LowestOf(ss, ColdOf(ss)))
HotMinBelowColdMin(ss) == RLt(LowestOf(ss, HotOf(ss)), LowestOf(ss, ColdOf(ss)))
HotMaxBelowColdMax(ss) == RLt(HighestOf(ss, HotOf(ss)), HighestOf(ss, ColdOf(ss)))

\* the message the claim gives validate_streams
C5_Message(ss, ignore_validation) ==
    IF SharedId(ss) THEN "stream ids must be unique"
    ELSE IF NoHotOrNoCold(ss) THEN "at least one hot and one cold stream are needed"
    ELSE IF HotMaxNotAboveColdMin(ss)
    THEN "hot maximum temperature below cold minimum temperature"
    ELSE IF ~ignore_validation /\ HotMinBelowColdMin(ss)
    THEN "hot minimum temperature below cold minimum temperature"
    ELSE IF ~ignore_validation /\ HotMaxBelowColdMax(ss)
    THEN "hot maximum temperature below cold maximum temperature"
    ELSE ""

\* C5: validate_streams returns the message of the first failing check in the
\* order (1) two streams share an id, (2) no hot or no cold stream, (3) hot
\* maximum <= cold minimum, and only when ignore_validation is false (4) hot
\* minimum < cold minimum, (5) hot maximum < cold maximum; it returns the empty
\* string when none fails.
C5_ValidateStreamsOrder ==
    call.op = "validate_streams" =>
        msg.message = C5_Message(streams, call.ignore_validation)

\* the last check decided: a list that passes checks (1)-(4) and fails (5)
C5_Witness ==
    /\ call.op = "validate_streams"
    /\ ~call.ignore_validation
    /\ msg.message = "hot maximum temperature below cold maximum temperature"
    /\ ~HotMinBelowColdMin(streams)

\* the two optional checks find a violation in a list that passes (1)-(3)
OptionalViolation(ss) ==
    /\ ~SharedId(ss)
    /\ ~NoHotOrNoCold(ss)
    /\ ~HotMaxNotAboveColdMin(ss)
    /\ HotMinBelowColdMin(ss) \/ HotMaxBelowColdMax(ss)

RejectedByOptionalCheck ==
    /\ err = "PyHeatIntegrationError"
    /\ msg.message \in {"hot minimum temperature below cold minimum temperature",
                        "hot maximum temperature below cold maximum temperature"}

\* C7 as stated: PinchAnalyzer applies the two optional checks and rejects the
\* input on violation whenever the list has no external stream or
\* force_validation is set, and skips both checks when the list has an external
\* stream and force_validation is not set.
C7_OptionalChecksAsStated ==
    (call.op = "PinchAnalyzer" /\ OptionalViolation(streams)) =>
        IF ExternalOf(streams) = {} \/ call.force_validation
        THEN RejectedByOptionalCheck
        ELSE ~RejectedByOptionalCheck

\* C7, amended: PinchAnalyzer applies the two optional checks and rejects the
\* input on violation whenever the list has an external stream or
\* force_validation is set, and skips both checks when the list has no external
\* stream and force_validation is not set.
C7_OptionalChecksAmended ==
    (call.op = "PinchAnalyzer" /\ OptionalViolation(streams)) =>
        IF ExternalOf(streams) # {} \/ call.force_validation
        THEN RejectedByOptionalCheck
        ELSE ~RejectedByOptionalCheck

\* a list without external streams that violates an optional check is not
\* rejected for it when validation is not forced
C7_Witness ==
    /\ call.op = "PinchAnalyzer"
    /\ OptionalViolation(streams)
    /\ ExternalOf(streams) = {}
    /\ ~call.force_validation
    /\ ~RejectedByOptionalCheck
    /\ pa[1].minimum_approach_temp_diff_range # None

====
